---- MODULE Spec2Model ----
(* Motion control engine of the tape feeder: Servo (system/servo.py), its     *)
(* PeelMotor sequencer (system/peel.py) and the HBridge actuator              *)
(* (hardware/drives.py).  One action per public Servo operation; every action *)
(* runs the whole method, nested calls included.                              *)
(*                                                                            *)
(* Time is counted in control periods: one Tick is one period of the main     *)
(* loop (flash/app.py:182), and the peel run time is a number of periods.     *)
(* Real-valued outputs are rounded down to whole percent.  The PID sum        *)
(* P + I + D is an input of the tick, drawn from PidSums, and is clamped as   *)
(* the code clamps it.  The encoder position read by a call is an input of    *)
(* that call, drawn from Positions.                                           *)
EXTENDS Integers, Sequences, FiniteSets, TLC

VARIABLES cfg,      \* construction options of the Servo (fixed after Init)
          servo,    \* Servo fields
          peel,     \* PeelMotor fields
          drives,   \* HBridge: enable flag and the last command applied per channel
          encoder,  \* Encoder.absolute_count as last sampled (under SpecEncoder:
                    \* the Encoder object and the hardware counter it samples)
          trace,    \* what the last operation did: its return value, the drive_set and
                    \* peel_set commands and PeelMotor.run calls it issued, its log lines
          hist      \* history of the current move (see NextHist)

vars == <<cfg, servo, peel, drives, encoder, trace, hist>>

----------------------------------------------------------------------------
(* Bounds of the model *)

PosMax == 2
MaxTol == 1
MaxRamp == 2
MaxBacklash == 1
MaxStable == 2
MaxPeelTicks == 2

(* Program constants *)

STATE_STOPPED == 0
STATE_FORWARD == 1
STATE_REVERSE == 2
max_output == 80
min_output == 5
ramp_taper_percent == 30
peel_speed == 75

Positions == (0 - PosMax) .. PosMax
Targets == {0, 1}
PidSums == {0 - 100, 2, 40, 100}

(* Values of the integral gain, such that max_output / Ki is a whole number  *)
(* (-5, 5 and 4): the construction default is positive, the tuning procedure    *)
(* (util/profiler.py) assigns Servo.Ki between moves.                         *)
Kis == {0 - 16, 16, 20}

Configs ==
    [ tolerance       : {MaxTol},
      ramp_ticks      : {0, MaxRamp},
      backlash_takeup : {0, MaxBacklash},
      stable_updates  : {1, MaxStable},
      peel_time       : {MaxPeelTicks},
      derivative_alpha : {0} ]

(* Configurations for the study of the PID memory: the derivative filter      *)
(* follows the raw derivative (derivative_alpha = 1), the PID sub-phase is as *)
(* wide as the bounds allow.                                                  *)
PidConfigs ==
    [ tolerance       : {MaxTol},
      ramp_ticks      : {MaxRamp},
      backlash_takeup : {0},
      stable_updates  : {MaxStable},
      peel_time       : {MaxPeelTicks},
      derivative_alpha : {1} ]

Abs(x) == IF x < 0 THEN 0 - x ELSE x
Min(a, b) == IF a < b THEN a ELSE b
Max(a, b) == IF a > b THEN a ELSE b

(* a / b for the operands the model uses, whose quotient is a whole number *)
Div(a, b) == IF b < 0 THEN 0 - (a \div (0 - b)) ELSE a \div b

----------------------------------------------------------------------------
(* The world an operation runs in, and the record of what it did *)

World == [servo |-> servo, peel |-> peel, drives |-> drives,
          encoder |-> encoder, trace |-> trace]

NewTrace(op) == [op |-> op, arg |-> 0, ret |-> FALSE, done |-> FALSE,
                 drive |-> <<>>, peel |-> <<>>, run |-> <<>>, log |-> <<>>,
                 fault |-> "none", raised |-> FALSE, frozen |-> <<>>]

Begin(W, op) == [W EXCEPT !.trace = NewTrace(op)]

(* A call with an argument *)
BeginWith(W, op, arg) == [W EXCEPT !.trace = [NewTrace(op) EXCEPT !.arg = arg]]

Log(W, msg) == [W EXCEPT !.trace.log = Append(@, msg)]

Return(W, v) == [W EXCEPT !.trace.ret = v, !.trace.done = TRUE]

(* Failures of the hardware.  trace.fault names the call that fails during    *)
(* the operation: "encoder" (Encoder.update), "drive" (HBridge.drive_set) or  *)
(* "peel" (HBridge.peel_set), "none" in normal operation.  The failing call   *)
(* raises an exception: the operation ends there, with the assignments made   *)
(* so far and none of the later ones.  Raise keeps the world of that moment   *)
(* in trace.frozen; the operation leaves that world behind (Final).  No       *)
(* method of Servo or PeelMotor has a try statement.                          *)
Fault(W, kind) == [W EXCEPT !.trace.fault = kind]

(* Mutant: the exception is caught and the operation goes on. *)
Raise_swallowed(W) == W

Raise(W) ==
    IF W.trace.frozen # <<>> THEN W
    ELSE LET F == [W EXCEPT !.trace.raised = TRUE, !.trace.done = TRUE]
         IN  [F EXCEPT !.trace.frozen = <<F>>]

Final(W) == IF W.trace.frozen # <<>> THEN W.trace.frozen[1] ELSE W

----------------------------------------------------------------------------
(* HBridge *)

HB_enable(W, state) == [W EXCEPT !.drives.enabled = state]

HB_drive_set(W, speed) ==
    LET W1 == [W EXCEPT !.trace.drive = Append(@, speed)]
    IN  IF ~W.drives.enabled THEN W1
        ELSE IF W.trace.fault = "drive" THEN Raise(W1)
        ELSE [W1 EXCEPT !.drives.drive = speed]

HB_peel_set(W, speed) ==
    LET W1 == [W EXCEPT !.trace.peel = Append(@, speed)]
    IN  IF ~W.drives.enabled THEN W1
        ELSE IF W.trace.fault = "peel" THEN Raise(W1)
        ELSE [W1 EXCEPT !.drives.peel = speed]

----------------------------------------------------------------------------
(* PeelMotor *)

Peel_is_idle(W) == W.peel.state = STATE_STOPPED

(* Mutant: the reverse command carries the speed without its sign. *)
Peel_set_state_unsigned(W, new_state, speed_to_use) ==
    LET spd == IF new_state = STATE_STOPPED THEN 0 ELSE speed_to_use
    IN  IF W.peel.state = new_state /\ new_state # STATE_STOPPED
           /\ W.peel.speed = spd
        THEN W
        ELSE LET W1 == [W EXCEPT !.peel.state = new_state, !.peel.speed = spd]
             IN  IF new_state \in {STATE_FORWARD, STATE_REVERSE}
                 THEN HB_peel_set(W1, spd)
                 ELSE [HB_peel_set(W1, 0) EXCEPT !.peel.elapsed = 0,
                                                 !.peel.target = 0,
                                                 !.peel.speed = 0]

(* Mutant: a stop leaves the speed and the timer as they are. *)
Peel_set_state_stop_keeps_timer(W, new_state, speed_to_use) ==
    LET spd == IF new_state = STATE_STOPPED THEN 0 ELSE speed_to_use
    IN  IF W.peel.state = new_state /\ new_state # STATE_STOPPED
           /\ W.peel.speed = spd
        THEN W
        ELSE IF new_state = STATE_FORWARD
             THEN HB_peel_set([W EXCEPT !.peel.state = new_state,
                                        !.peel.speed = spd], spd)
             ELSE IF new_state = STATE_REVERSE
             THEN HB_peel_set([W EXCEPT !.peel.state = new_state,
                                        !.peel.speed = spd], 0 - spd)
             ELSE HB_peel_set([W EXCEPT !.peel.state = new_state], 0)

Peel_set_state(W, new_state, speed_to_use) ==
    LET spd == IF new_state = STATE_STOPPED THEN 0 ELSE speed_to_use
    IN  IF W.peel.state = new_state /\ new_state # STATE_STOPPED
           /\ W.peel.speed = spd
        THEN W
        ELSE LET W1 == [W EXCEPT !.peel.state = new_state, !.peel.speed = spd]
             IN  IF new_state = STATE_FORWARD THEN HB_peel_set(W1, spd)
                 ELSE IF new_state = STATE_REVERSE THEN HB_peel_set(W1, 0 - spd)
                 ELSE [HB_peel_set(W1, 0) EXCEPT !.peel.elapsed = 0,
                                                 !.peel.target = 0,
                                                 !.peel.speed = 0]

(* Mutant: a run in the current direction at the current speed keeps the      *)
(* timer it has.                                                              *)
Peel_run_keeps_timer(W0, direction_int, time_ms, speed) ==
    LET W == [W0 EXCEPT !.trace.run = Append(@, direction_int)]
    IN
    IF direction_int \notin {0 - 1, 0, 1} THEN Log(W, "peel_invalid_direction")
    ELSE
    LET direction_state == IF direction_int = 0 THEN STATE_STOPPED
                           ELSE IF direction_int = 1 THEN STATE_FORWARD
                           ELSE STATE_REVERSE
        actual_speed == Min(Abs(speed), 100)
    IN  IF time_ms < 0 THEN Log(W, "peel_invalid_time")
        ELSE IF direction_state = STATE_STOPPED
                \/ (time_ms = 0 /\ direction_state # STATE_STOPPED)
        THEN Peel_set_state(IF W.peel.state # STATE_STOPPED
                            THEN Log(W, "peel_immediate_stop") ELSE W,
                            STATE_STOPPED, 0)
        ELSE
        LET state_changed == \/ W.peel.state # direction_state
                             \/ W.peel.state = STATE_STOPPED
                             \/ W.peel.speed # actual_speed
            started == IF W.peel.state = direction_state
                          /\ W.peel.speed # actual_speed
                       THEN Log(W, "peel_speed_change")
                       ELSE Log(W, "peel_starting")
        IN  IF state_changed
            THEN [Peel_set_state(started, direction_state, actual_speed) EXCEPT
                      !.peel.elapsed = 0, !.peel.target = time_ms]
            ELSE Log(W, "peel_timer_reset")

(* Mutant: a negative duration is taken as given. *)
Peel_run_accepts_negative_time(W0, direction_int, time_ms, speed) ==
    LET W == [W0 EXCEPT !.trace.run = Append(@, direction_int)]
    IN
    IF direction_int \notin {0 - 1, 0, 1} THEN Log(W, "peel_invalid_direction")
    ELSE
    LET direction_state == IF direction_int = 0 THEN STATE_STOPPED
                           ELSE IF direction_int = 1 THEN STATE_FORWARD
                           ELSE STATE_REVERSE
        actual_speed == Min(Abs(speed), 100)
    IN  IF direction_state = STATE_STOPPED
                \/ (time_ms = 0 /\ direction_state # STATE_STOPPED)
        THEN Peel_set_state(IF W.peel.state # STATE_STOPPED
                            THEN Log(W, "peel_immediate_stop") ELSE W,
                            STATE_STOPPED, 0)
        ELSE
        LET state_changed == \/ W.peel.state # direction_state
                             \/ W.peel.state = STATE_STOPPED
                             \/ W.peel.speed # actual_speed
            started == IF W.peel.state = direction_state
                          /\ W.peel.speed # actual_speed
                       THEN Log(W, "peel_speed_change")
                       ELSE Log(W, "peel_starting")
            W1 == IF state_changed
                  THEN Peel_set_state(started, direction_state, actual_speed)
                  ELSE Log(W, "peel_timer_reset")
        IN  [W1 EXCEPT !.peel.elapsed = 0, !.peel.target = time_ms]

Peel_run(W0, direction_int, time_ms, speed) ==
    LET W == [W0 EXCEPT !.trace.run = Append(@, direction_int)]
    IN
    IF direction_int \notin {0 - 1, 0, 1} THEN Log(W, "peel_invalid_direction")
    ELSE
    LET direction_state == IF direction_int = 0 THEN STATE_STOPPED
                           ELSE IF direction_int = 1 THEN STATE_FORWARD
                           ELSE STATE_REVERSE
        actual_speed == Min(Abs(speed), 100)
    IN  IF time_ms < 0 THEN Log(W, "peel_invalid_time")
        ELSE IF direction_state = STATE_STOPPED
                \/ (time_ms = 0 /\ direction_state # STATE_STOPPED)
        THEN Peel_set_state(IF W.peel.state # STATE_STOPPED
                            THEN Log(W, "peel_immediate_stop") ELSE W,
                            STATE_STOPPED, 0)
        ELSE
        LET state_changed == \/ W.peel.state # direction_state
                             \/ W.peel.state = STATE_STOPPED
                             \/ W.peel.speed # actual_speed
            started == IF W.peel.state = direction_state
                          /\ W.peel.speed # actual_speed
                       THEN Log(W, "peel_speed_change")
                       ELSE Log(W, "peel_starting")
            W1 == IF state_changed
                  THEN Peel_set_state(started, direction_state, actual_speed)
                  ELSE Log(W, "peel_timer_reset")
        IN  [W1 EXCEPT !.peel.elapsed = 0, !.peel.target = time_ms]

(* Mutant: the run is stopped one period before its duration has elapsed. *)
Peel_update_early(W) ==
    IF W.peel.state = STATE_STOPPED \/ W.peel.target <= 0 THEN W
    ELSE IF W.peel.elapsed + 1 >= W.peel.target
         THEN Peel_set_state(Log(W, "peel_timer_complete"), STATE_STOPPED, 0)
         ELSE W

Peel_update(W) ==
    IF W.peel.state = STATE_STOPPED \/ W.peel.target <= 0 THEN W
    ELSE IF W.peel.elapsed >= W.peel.target
         THEN Peel_set_state(Log(W, "peel_timer_complete"), STATE_STOPPED, 0)
         ELSE W

(* One control period passes: ticks_ms() moves on by one period.  The elapsed *)
(* time of a run is kept up to its target, beyond which update() no longer    *)
(* tells it apart.                                                            *)
Advance(W) ==
    IF W.peel.state = STATE_STOPPED THEN W
    ELSE [W EXCEPT !.peel.elapsed = Min(@ + 1, W.peel.target)]

----------------------------------------------------------------------------
(* Servo: enable, stop, peel_enable *)

Servo_peel_run(W, direction_int) ==
    Peel_run(W, direction_int, cfg.peel_time, peel_speed)

(* Mutant: disable() switches the bridge off without zeroing the drive. *)
Servo_enable_keeps_output(W, state) ==
    IF state THEN HB_enable(W, TRUE)
    ELSE
    LET W2 == IF W.servo.peel_enabled THEN Servo_peel_run(W, 0) ELSE W
        W3 == [W2 EXCEPT !.servo.target_reached = TRUE,
                         !.servo.backlash_active = FALSE,
                         !.servo.waiting = FALSE]
    IN  HB_enable(W3, FALSE)

(* Mutant: disable() toggles the bridge instead of switching it off. *)
Servo_enable_toggles(W, state) ==
    IF state THEN HB_enable(W, TRUE)
    ELSE
    LET W1 == HB_drive_set(W, 0)
        W2 == IF W1.servo.peel_enabled THEN Servo_peel_run(W1, 0) ELSE W1
        W3 == [W2 EXCEPT !.servo.target_reached = TRUE,
                         !.servo.backlash_active = FALSE,
                         !.servo.waiting = FALSE]
    IN  HB_enable(W3, ~W3.drives.enabled)

Servo_enable(W, state) ==
    IF state THEN HB_enable(W, TRUE)
    ELSE
    LET W1 == HB_drive_set(W, 0)
        W2 == IF W1.servo.peel_enabled THEN Servo_peel_run(W1, 0) ELSE W1
        W3 == [W2 EXCEPT !.servo.target_reached = TRUE,
                         !.servo.backlash_active = FALSE,
                         !.servo.waiting = FALSE]
    IN  HB_enable(W3, FALSE)

(* Mutant: stop() takes the current position as the new setpoint. *)
Servo_stop_moves_setpoint(W) ==
    LET W1 == HB_drive_set(Log(W, "stop"), 0)
        W2 == IF W1.servo.peel_enabled THEN Servo_peel_run(W1, 0) ELSE W1
    IN  [W2 EXCEPT !.servo.target_reached = TRUE,
                   !.servo.backlash_active = FALSE,
                   !.servo.waiting = FALSE,
                   !.servo.setpoint = W.encoder]

(* Mutant: stop() leaves the wait flag as it is. *)
Servo_stop_keeps_wait(W) ==
    LET W1 == HB_drive_set(Log(W, "stop"), 0)
        W2 == IF W1.servo.peel_enabled THEN Servo_peel_run(W1, 0) ELSE W1
    IN  [W2 EXCEPT !.servo.target_reached = TRUE,
                   !.servo.backlash_active = FALSE]

Servo_stop(W) ==
    LET W1 == HB_drive_set(Log(W, "stop"), 0)
        W2 == IF W1.servo.peel_enabled THEN Servo_peel_run(W1, 0) ELSE W1
    IN  [W2 EXCEPT !.servo.target_reached = TRUE,
                   !.servo.backlash_active = FALSE,
                   !.servo.waiting = FALSE]

Servo_peel_enable(W, enabled) ==
    LET W1 == [W EXCEPT !.servo.peel_enabled = enabled]
    IN  IF ~enabled THEN Peel_run(W1, 0, cfg.peel_time, peel_speed) ELSE W1

is_target_reached(W) == W.servo.target_reached /\ ~W.servo.waiting

----------------------------------------------------------------------------
(* Servo.set_target *)

(* Mutant: the target of the call is not stored. *)
ST_Begin_stale_target(W, target_position, current_pos) ==
    LET W1 == Servo_enable(W, TRUE)
    IN  [W1 EXCEPT !.encoder = current_pos,
                   !.servo.target_reached = FALSE,
                   !.servo.backlash_active = FALSE,
                   !.servo.waiting = FALSE]

(* servo.py:97-102 *)
ST_Begin(W, target_position, current_pos) ==
    LET W1 == Servo_enable(W, TRUE)
    IN  [W1 EXCEPT !.encoder = current_pos,
                   !.servo.original_setpoint = target_position,
                   !.servo.target_reached = FALSE,
                   !.servo.backlash_active = FALSE,
                   !.servo.waiting = FALSE]

(* Mutant: the reverse run is commanded without asking is_idle(). *)
ST_PeelBeforeReverse_no_wait(W) ==
    IF ~W.servo.peel_enabled THEN W ELSE Servo_peel_run(W, 0 - 1)

(* servo.py:114-119 *)
ST_PeelBeforeReverse(W) ==
    IF ~W.servo.peel_enabled THEN W
    ELSE IF ~Peel_is_idle(W)
         THEN [Log(W, "wait_peel_before_phase1") EXCEPT !.servo.waiting = TRUE]
         ELSE Servo_peel_run(W, 0 - 1)

(* Mutant: the direction flag of the previous move is kept. *)
ST_Backward_keeps_direction(W) ==
    LET overshoot == cfg.ramp_ticks + cfg.backlash_takeup
        W1 == [Log(W, "reverse_move") EXCEPT
                   !.servo.backlash_active = TRUE,
                   !.servo.setpoint = W.servo.original_setpoint - overshoot]
    IN  ST_PeelBeforeReverse(W1)

(* servo.py:106-112 *)
ST_Backward(W) ==
    LET overshoot == cfg.ramp_ticks + cfg.backlash_takeup
        W1 == [Log(W, "reverse_move") EXCEPT
                   !.servo.backlash_active = TRUE,
                   !.servo.setpoint = W.servo.original_setpoint - overshoot,
                   !.servo.forward = FALSE]
    IN  ST_PeelBeforeReverse(W1)

(* Mutant: a forward move leaves the peel motor as it is. *)
ST_Forward_no_peel(W, current_pos) ==
    LET W1 == [W EXCEPT !.servo.setpoint = W.servo.original_setpoint]
    IN  IF W1.servo.setpoint # current_pos
        THEN LET W2 == [W1 EXCEPT !.servo.forward = (W1.servo.setpoint > current_pos)]
             IN  Log(W2, "forward_move")
        ELSE LET W2 == [W1 EXCEPT !.servo.forward = TRUE]
             IN  Log(IF W2.servo.peel_enabled THEN Servo_peel_run(W2, 0) ELSE W2,
                     "already_at_target")

(* Mutant: a forward move keeps the direction flag of the previous move. *)
ST_Forward_keeps_direction(W, current_pos) ==
    LET W1 == [W EXCEPT !.servo.setpoint = W.servo.original_setpoint]
    IN  IF W1.servo.setpoint # current_pos
        THEN Log(IF W1.servo.peel_enabled THEN Servo_peel_run(W1, 1) ELSE W1,
                 "forward_move")
        ELSE Log(IF W1.servo.peel_enabled THEN Servo_peel_run(W1, 0) ELSE W1,
                 "already_at_target")

(* servo.py:120-131 *)
ST_Forward(W, current_pos) ==
    LET W1 == [W EXCEPT !.servo.setpoint = W.servo.original_setpoint]
    IN  IF W1.servo.setpoint # current_pos
        THEN LET W2 == [W1 EXCEPT !.servo.forward = (W1.servo.setpoint > current_pos)]
             IN  Log(IF W2.servo.peel_enabled THEN Servo_peel_run(W2, 1) ELSE W2,
                     "forward_move")
        ELSE LET W2 == [W1 EXCEPT !.servo.forward = TRUE]
             IN  Log(IF W2.servo.peel_enabled THEN Servo_peel_run(W2, 0) ELSE W2,
                     "already_at_target")

(* servo.py:133-139 *)
ST_Reset(W, current_pos) ==
    [W EXCEPT !.servo.integral = 0,
              !.servo.previous_error = W.servo.setpoint - current_pos,
              !.servo.stable_count = 0,
              !.servo.initial_error = Abs(W.servo.setpoint - current_pos)]

(* Mutant: the shortcut does not except the reverse leg. *)
ST_Tolerance_any_leg(W, current_pos) ==
    IF W.servo.initial_error <= cfg.tolerance
    THEN LET W1 == [Log(W, "within_tolerance") EXCEPT
                        !.servo.target_reached = TRUE]
             W2 == HB_drive_set(W1, 0)
             W3 == IF W2.servo.setpoint = current_pos /\ W2.servo.peel_enabled
                   THEN Servo_peel_run(W2, 0) ELSE W2
         IN  [W3 EXCEPT !.servo.backlash_active = FALSE]
    ELSE W

(* servo.py:141-153 *)
ST_Tolerance(W, current_pos) ==
    IF W.servo.initial_error <= cfg.tolerance
    THEN IF W.servo.backlash_active /\ ~W.servo.forward
         THEN Log(W, "phase1_near_overshoot_target")
         ELSE LET W1 == [Log(W, "within_tolerance") EXCEPT
                             !.servo.target_reached = TRUE]
                  W2 == HB_drive_set(W1, 0)
                  W3 == IF W2.servo.setpoint = current_pos /\ W2.servo.peel_enabled
                        THEN Servo_peel_run(W2, 0) ELSE W2
              IN  [W3 EXCEPT !.servo.backlash_active = FALSE]
    ELSE W

Servo_set_target(W, target_position, current_pos) ==
    LET W1 == ST_Begin(W, target_position, current_pos)
        is_moving_backwards == W1.servo.original_setpoint < current_pos
        W2 == IF is_moving_backwards THEN ST_Backward(W1)
              ELSE ST_Forward(W1, current_pos)
    IN  ST_Tolerance(ST_Reset(W2, current_pos), current_pos)

----------------------------------------------------------------------------
(* Servo.update.  Each U_ operator is one block of the method, in the order   *)
(* of the code; a block is skipped once an earlier one has returned.          *)

(* Mutant: update() does not tick the peel sequencer. *)
U_Peel_skipped(W) == W

(* servo.py:158-159 *)
U_Peel(W) ==
    IF W.servo.peel_enabled THEN Peel_update(W) ELSE W

(* Mutant: the disabled controller also commands zero drive. *)
U_Disabled_zeroes_drive(W) ==
    IF W.trace.done \/ W.drives.enabled THEN W
    ELSE Return(HB_drive_set(IF W.servo.peel_enabled /\ ~Peel_is_idle(W)
                             THEN Servo_peel_run(W, 0) ELSE W, 0), FALSE)

(* servo.py:161-164 *)
U_Disabled(W) ==
    IF W.trace.done \/ W.drives.enabled THEN W
    ELSE Return(IF W.servo.peel_enabled /\ ~Peel_is_idle(W)
                THEN Servo_peel_run(W, 0) ELSE W, FALSE)

(* Mutant: the idle shortcut tests the waiting flag the wrong way round. *)
U_Idle_waiting(W) ==
    IF W.trace.done THEN W
    ELSE IF W.servo.target_reached /\ W.servo.waiting THEN Return(W, FALSE)
    ELSE W

(* servo.py:166-167 *)
U_Idle(W) ==
    IF W.trace.done THEN W
    ELSE IF W.servo.target_reached /\ ~W.servo.waiting THEN Return(W, FALSE)
    ELSE W

(* servo.py:169-170 *)
U_Read(W, current_position) ==
    IF W.trace.done THEN W
    ELSE IF W.trace.fault = "encoder" THEN Raise(W)
    ELSE [W EXCEPT !.encoder = current_position]

(* Mutant: a tick spent waiting for the peel motor before the reverse leg    *)
(* reports no movement.                                                     *)
U_WaitPeel_returns_false(W) ==
    IF W.trace.done THEN W
    ELSE IF W.servo.backlash_active /\ ~W.servo.forward /\ W.servo.waiting
    THEN IF W.servo.peel_enabled /\ ~Peel_is_idle(W)
         THEN Return(W, FALSE)
         ELSE LET W1 == [Log(W, "peel_idle_starting_phase1") EXCEPT
                             !.servo.waiting = FALSE]
              IN  IF W1.servo.peel_enabled THEN Servo_peel_run(W1, 0 - 1) ELSE W1
    ELSE W

(* servo.py:172-180 *)
U_WaitPeel(W) ==
    IF W.trace.done THEN W
    ELSE IF W.servo.backlash_active /\ ~W.servo.forward /\ W.servo.waiting
    THEN IF W.servo.peel_enabled /\ ~Peel_is_idle(W)
         THEN Return(W, TRUE)
         ELSE LET W1 == [Log(W, "peel_idle_starting_phase1") EXCEPT
                             !.servo.waiting = FALSE]
              IN  IF W1.servo.peel_enabled THEN Servo_peel_run(W1, 0 - 1) ELSE W1
    ELSE W

(* Mutant: the forward leg is set up without substituting the setpoint. *)
U_Transition_keeps_setpoint(W) ==
    LET W1 == [Log(W, "transitioning_to_phase2") EXCEPT
                   !.servo.waiting = FALSE,
                   !.servo.forward = TRUE,
                   !.servo.target_reached = FALSE,
                   !.servo.integral = 0,
                   !.servo.previous_error = W.servo.setpoint - W.encoder,
                   !.servo.stable_count = 0,
                   !.servo.initial_error = Abs(W.servo.setpoint - W.encoder)]
        W2 == IF W1.servo.peel_enabled THEN Servo_peel_run(W1, 1) ELSE W1
    IN  IF W2.servo.initial_error <= cfg.tolerance
        THEN LET W3 == [Log(W2, "phase2_already_at_target") EXCEPT
                            !.servo.target_reached = TRUE]
                 W4 == HB_drive_set(W3, 0)
             IN  Return([W4 EXCEPT !.servo.backlash_active = FALSE], FALSE)
        ELSE W2

(* servo.py:193-216 *)
U_Transition(W) ==
    LET W1 == [Log(W, "transitioning_to_phase2") EXCEPT
                   !.servo.waiting = FALSE,
                   !.servo.setpoint = W.servo.original_setpoint,
                   !.servo.forward = TRUE,
                   !.servo.target_reached = FALSE,
                   !.servo.integral = 0,
                   !.servo.previous_error = W.servo.original_setpoint - W.encoder,
                   !.servo.stable_count = 0,
                   !.servo.initial_error =
                       Abs(W.servo.original_setpoint - W.encoder)]
        W2 == IF W1.servo.peel_enabled THEN Servo_peel_run(W1, 1) ELSE W1
    IN  IF W2.servo.initial_error <= cfg.tolerance
        THEN LET W3 == [Log(W2, "phase2_already_at_target") EXCEPT
                            !.servo.target_reached = TRUE]
                 W4 == HB_drive_set(W3, 0)
             IN  Return([W4 EXCEPT !.servo.backlash_active = FALSE], FALSE)
        ELSE W2

(* Mutant: the reverse leg completes within tolerance of its setpoint. *)
U_Phase1Complete_within_tolerance(W) ==
    IF W.trace.done THEN W
    ELSE IF W.servo.backlash_active /\ ~W.servo.forward
            /\ W.encoder <= W.servo.setpoint + cfg.tolerance
    THEN LET W1 == IF ~W.servo.waiting
                   THEN [HB_drive_set(Log(W, "phase1_complete"), 0) EXCEPT
                             !.servo.waiting = TRUE]
                   ELSE W
         IN  IF W1.servo.peel_enabled /\ ~Peel_is_idle(W1)
             THEN Return(W1, TRUE)
             ELSE U_Transition(W1)
    ELSE W

(* servo.py:182-192 *)
U_Phase1Complete(W) ==
    IF W.trace.done THEN W
    ELSE IF W.servo.backlash_active /\ ~W.servo.forward
            /\ W.encoder <= W.servo.setpoint
    THEN LET W1 == IF ~W.servo.waiting
                   THEN [HB_drive_set(Log(W, "phase1_complete"), 0) EXCEPT
                             !.servo.waiting = TRUE]
                   ELSE W
         IN  IF W1.servo.peel_enabled /\ ~Peel_is_idle(W1)
             THEN Return(W1, TRUE)
             ELSE U_Transition(W1)
    ELSE W

(* servo.py:218-219 *)
U_StillWaiting(W) ==
    IF W.trace.done THEN W
    ELSE IF W.servo.waiting THEN Return(W, TRUE) ELSE W

(* Mutant: the overshoot test looks at the wrong side of the setpoint. *)
U_Overshoot_wrong_side(W) ==
    IF W.trace.done THEN W
    ELSE IF W.servo.forward /\ W.encoder < W.servo.setpoint
            /\ Abs(W.servo.setpoint - W.encoder) > cfg.tolerance
    THEN LET W1 == HB_drive_set(Log(W, "overshoot"), 0)
         IN  Return([W1 EXCEPT !.servo.target_reached = TRUE,
                               !.servo.backlash_active = FALSE], FALSE)
    ELSE W

(* servo.py:225-234 *)
U_Overshoot(W) ==
    IF W.trace.done THEN W
    ELSE IF W.servo.forward /\ W.encoder > W.servo.setpoint
            /\ Abs(W.servo.setpoint - W.encoder) > cfg.tolerance
    THEN LET W1 == HB_drive_set(Log(W, "overshoot"), 0)
         IN  Return([W1 EXCEPT !.servo.target_reached = TRUE,
                               !.servo.backlash_active = FALSE], FALSE)
    ELSE W

(* Mutant: one stable tick too many is asked for. *)
StableEnough_strict(count) == count > cfg.stable_updates

(* servo.py:240 *)
StableEnough(count) == count >= cfg.stable_updates

(* servo.py:236-251 *)
U_TargetCheck(W) ==
    IF W.trace.done THEN W
    ELSE IF Abs(W.servo.setpoint - W.encoder) <= cfg.tolerance
    THEN IF ~(W.servo.backlash_active /\ ~W.servo.forward)
         THEN LET W1 == [W EXCEPT !.servo.stable_count = @ + 1]
              IN  IF StableEnough(W1.servo.stable_count)
                  THEN LET W2 == [Log(W1, "target_reached") EXCEPT
                                      !.servo.target_reached = TRUE]
                           W3 == HB_drive_set(W2, 0)
                       IN  Return([W3 EXCEPT !.servo.backlash_active = FALSE],
                                  FALSE)
                  ELSE HB_drive_set(W1, 0)
         ELSE W
    ELSE [W EXCEPT !.servo.stable_count = 0]

(* Mutant: the reverse output is not limited to [-max_output, -min_output]. *)
ReverseOutputOf_unclamped(max_out, min_out, total_distance, distance_to_setpoint) ==
    LET reverse_min_speed == (max_out * 6) \div 10
        num == IF total_distance > 0
               THEN Max(0, Min(distance_to_setpoint, total_distance)) ELSE 0
        den == IF total_distance > 0 THEN total_distance ELSE 1
    IN  0 - (min_out + ((reverse_min_speed - min_out) * num) \div den)

(* servo.py:257-263 for any limits: self.max_output = max_out,                *)
(* self.min_output = min_out, _initial_error_at_move_start = total_distance.  *)
ReverseOutputOf(max_out, min_out, total_distance, distance_to_setpoint) ==
    LET reverse_min_speed == (max_out * 6) \div 10
        num == IF total_distance > 0
               THEN Max(0, Min(distance_to_setpoint, total_distance)) ELSE 0
        den == IF total_distance > 0 THEN total_distance ELSE 1
        output == 0 - (min_out
                       + ((reverse_min_speed - min_out) * num) \div den)
    IN  Max(0 - max_out, Min(output, 0 - min_out))

(* servo.py:257-263 with the limits of the model *)
ReverseOutput(W, distance_to_setpoint) ==
    ReverseOutputOf(max_output, min_output, W.servo.initial_error,
                    distance_to_setpoint)

(* Mutant: the ramp does not look at min_output. *)
RampOutputOf_no_floor(max_out, min_out, taper, ramp, initial_error, distance_to_setpoint) ==
    LET min_ramp_speed == Min((taper * max_out) \div 100, max_out)
        ramp_span == initial_error - ramp
        output ==
            IF ramp_span > 0
            THEN LET num == Max(0, Min(distance_to_setpoint - ramp, ramp_span))
                 IN  min_ramp_speed
                     + ((max_out - min_ramp_speed) * num) \div ramp_span
            ELSE min_ramp_speed
    IN  Min(output, max_out)

(* servo.py:266-279 for any limits: ramp_taper_percent = taper,               *)
(* ramp_ticks = ramp.                                                         *)
RampOutputOf(max_out, min_out, taper, ramp, initial_error, distance_to_setpoint) ==
    LET tapered_speed == (taper * max_out) \div 100
        min_ramp_speed == Min(Max(tapered_speed, min_out), max_out)
        ramp_span == initial_error - ramp
        output ==
            IF ramp_span > 0
            THEN LET num == Max(0, Min(distance_to_setpoint - ramp, ramp_span))
                 IN  min_ramp_speed
                     + ((max_out - min_ramp_speed) * num) \div ramp_span
            ELSE min_ramp_speed
    IN  Min(output, max_out)

(* servo.py:266-279 with the limits of the model *)
RampOutput(W, distance_to_setpoint) ==
    RampOutputOf(max_output, min_output, ramp_taper_percent, cfg.ramp_ticks,
                 W.servo.initial_error, distance_to_setpoint)

(* servo.py:305: the limit applied to every output before drive_set *)
DriveCommandOf(max_out, output) == Max(Min(output, max_out), 0 - max_out)

(* Mutant: the PID sum is limited from above only. *)
PidOutput_no_floor(pid_sum) == Min(pid_sum, max_output)

(* servo.py:299-300 *)
PidOutput(pid_sum) == Min(Max(pid_sum, min_output), max_output)

(* Mutant: the ramp sub-phase also takes the distance equal to ramp_ticks. *)
UsesRamp_inclusive(distance_to_setpoint) == distance_to_setpoint >= cfg.ramp_ticks

(* servo.py:265 *)
UsesRamp(distance_to_setpoint) == distance_to_setpoint > cfg.ramp_ticks

(* Mutant: the integral is limited by max_output, whatever the gain. *)
ClampIntegral_no_gain(integral, Ki) ==
    Max(Min(integral, max_output), 0 - max_output)

(* servo.py:287-288 *)
ClampIntegral(integral, Ki) ==
    LET max_integral == IF Ki # 0 THEN Div(max_output, Ki) ELSE max_output
    IN  Max(Min(integral, max_integral), 0 - max_integral)

(* servo.py:284-297: the memory of the PID sum.  dt is the age of the time    *)
(* stamp _last_time_us.  Every call that leaves the move running towards the  *)
(* PID sum takes the stamp (set_target() at line 135, update() at line 303),  *)
(* so the stamp is one period old: dt = 1.  The one exception is a stamp      *)
(* taken earlier in the same call, by the transition to the forward leg       *)
(* (line 202): it is microseconds old, dt is positive, error * dt rounds to   *)
(* 0, and the raw derivative is 0 because previous_error was assigned from    *)
(* the same position at line 201.                                             *)
U_PidMemory(W, error) ==
    LET dt == IF \E i \in 1 .. Len(W.trace.log) :
                     W.trace.log[i] = "transitioning_to_phase2"
              THEN 0 ELSE 1
        integral == ClampIntegral(W.servo.integral + error * dt, W.servo.Ki)
        raw_derivative == IF dt = 0 THEN 0
                          ELSE (error - W.servo.previous_error) \div dt
        derivative == cfg.derivative_alpha * raw_derivative
                      + (1 - cfg.derivative_alpha) * W.servo.derivative
    IN  [W EXCEPT !.servo.integral = integral, !.servo.derivative = derivative]

(* Mutant: the reverse output is used in both legs of a backward move. *)
U_Control_reverse_any_leg(W, pid_sum) ==
    IF W.trace.done THEN W
    ELSE
    LET error == W.servo.setpoint - W.encoder
        distance_to_setpoint == Abs(error)
        reverse_leg == W.servo.backlash_active
        pid_phase == ~reverse_leg /\ ~UsesRamp(distance_to_setpoint)
        W1 == IF reverse_leg THEN Log(W, "control_reverse")
              ELSE IF ~pid_phase THEN Log(W, "control_ramp")
              ELSE IF Abs(error) <= cfg.tolerance
              THEN HB_drive_set(Log(W, "control_pid"), 0)
              ELSE U_PidMemory(Log(W, "control_pid"), error)
        output == IF reverse_leg
                  THEN ReverseOutput(W, distance_to_setpoint)
                  ELSE IF ~pid_phase
                  THEN RampOutput(W, distance_to_setpoint)
                  ELSE IF Abs(error) <= cfg.tolerance THEN 0
                  ELSE PidOutput(pid_sum)
        W2 == [W1 EXCEPT !.servo.previous_error = error]
    IN  Return(HB_drive_set(W2, Max(Min(output, max_output), 0 - max_output)),
               TRUE)

(* servo.py:253-307 *)
U_Control(W, pid_sum) ==
    IF W.trace.done THEN W
    ELSE
    LET error == W.servo.setpoint - W.encoder
        distance_to_setpoint == Abs(error)
        reverse_leg == W.servo.backlash_active /\ ~W.servo.forward
        pid_phase == ~reverse_leg /\ ~UsesRamp(distance_to_setpoint)
        W1 == IF reverse_leg THEN Log(W, "control_reverse")
              ELSE IF ~pid_phase THEN Log(W, "control_ramp")
              ELSE IF Abs(error) <= cfg.tolerance
              THEN HB_drive_set(Log(W, "control_pid"), 0)
              ELSE U_PidMemory(Log(W, "control_pid"), error)
        output == IF reverse_leg
                  THEN ReverseOutput(W, distance_to_setpoint)
                  ELSE IF ~pid_phase
                  THEN RampOutput(W, distance_to_setpoint)
                  ELSE IF Abs(error) <= cfg.tolerance THEN 0
                  ELSE PidOutput(pid_sum)
        W2 == [W1 EXCEPT !.servo.previous_error = error]
    IN  Return(HB_drive_set(W2, Max(Min(output, max_output), 0 - max_output)),
               TRUE)

(* servo.py:156-167: update() up to the point where it reads the encoder *)
U_BeforeRead(W) == U_Idle(U_Disabled(U_Peel(W)))

(* servo.py:169-251: from the encoder read to the control output calculation *)
U_BeforeControl(W, current_position) ==
    LET W1 == U_Phase1Complete(U_WaitPeel(U_Read(W, current_position)))
    IN  U_TargetCheck(U_Overshoot(U_StillWaiting(W1)))

(* servo.py:281-300: the tick reaches the PID sum *)
ComputesPid(W) ==
    /\ ~W.trace.done
    /\ ~(W.servo.backlash_active /\ ~W.servo.forward)
    /\ ~UsesRamp(Abs(W.servo.setpoint - W.encoder))
    /\ Abs(W.servo.setpoint - W.encoder) > cfg.tolerance

Servo_update(W, current_position, pid_sum) ==
    U_Control(U_BeforeControl(U_BeforeRead(W), current_position), pid_sum)

----------------------------------------------------------------------------
(* History of the current move, kept for the properties only.                 *)
(*   backward : the move was started by set_target() with target < position   *)
(*   rev_done : the reverse leg has completed ("Phase 1 complete" was logged) *)
(*   run      : number of consecutive forward-leg ticks, up to the last one,  *)
(*              whose position was within tolerance of the setpoint           *)
(*   ticks    : number of update() calls since set_target(), counted up to 2  *)
(*   before   : the phase in which the last call found the controller         *)

InLog(W, msg) == \E i \in 1 .. Len(W.trace.log) : W.trace.log[i] = msg

PhaseOf(sv, h) ==
    IF sv.target_reached /\ ~sv.waiting THEN "Idle"
    ELSE IF sv.waiting
         THEN IF h.rev_done THEN "WaitPeelBeforeForwardLeg"
              ELSE "WaitPeelBeforeReverseLeg"
    ELSE IF sv.backlash_active /\ ~sv.forward THEN "ReverseLeg"
    ELSE "ForwardLeg"

Phase == PhaseOf(servo, hist)

NextHist(W) ==
    LET h == [hist EXCEPT !.before = Phase]
    IN  IF W.trace.op = "set_target"
        THEN [h EXCEPT !.backward = InLog(W, "reverse_move"),
                       !.rev_done = FALSE, !.run = 0, !.ticks = 0]
        ELSE IF W.trace.op = "update"
        THEN [h EXCEPT
                !.rev_done = @ \/ InLog(W, "phase1_complete"),
                !.run = IF Phase = "ForwardLeg"
                           /\ Abs(W.servo.setpoint - W.encoder) <= cfg.tolerance
                        THEN Min(@ + 1, cfg.stable_updates + 1)
                        ELSE 0,
                !.ticks = Min(@ + 1, 2)]
        ELSE h

Commit(W) ==
    LET F == Final(W)
    IN  /\ servo' = F.servo
        /\ peel' = F.peel
        /\ drives' = F.drives
        /\ encoder' = F.encoder
        /\ trace' = [F.trace EXCEPT !.done = TRUE]
        /\ hist' = NextHist(F)
        /\ UNCHANGED cfg

----------------------------------------------------------------------------
(* State after construction: HBridge.__init__ leaves the bridge disabled with *)
(* all PWM at 0, PeelMotor.__init__ is Stopped, Servo.__init__ is idle.       *)

InitOf(configs, gains) ==
    /\ cfg \in configs
    /\ servo \in [ setpoint : {0}, original_setpoint : {0},
                   target_reached : {TRUE}, backlash_active : {FALSE},
                   waiting : {FALSE}, forward : {TRUE},
                   stable_count : {0}, initial_error : {0},
                   integral : {0}, previous_error : {0}, derivative : {0},
                   Ki : gains,
                   peel_enabled : {FALSE} ]
    /\ peel = [state |-> STATE_STOPPED, speed |-> 0, target |-> 0, elapsed |-> 0]
    /\ drives = [enabled |-> FALSE, drive |-> 0, peel |-> 0]
    /\ encoder = 0
    /\ trace = [NewTrace("init") EXCEPT !.done = TRUE]
    /\ hist = [backward |-> FALSE, rev_done |-> FALSE, run |-> 0, ticks |-> 0,
               before |-> "Idle"]

Init == InitOf(Configs, {20})

InitPid == InitOf(PidConfigs, Kis)

SetTarget ==
    \E target \in Targets, pos \in Positions :
        Commit(Servo_set_target(BeginWith(World, "set_target", target),
                                target, pos))

(* One period of the main loop: time passes, then Servo.update() runs.  The   *)
(* position is an input of the ticks that read the encoder, the PID sum of    *)
(* those that compute it.                                                     *)
Tick ==
    LET W0 == Advance(Begin(World, "update"))
    IN  \E pos \in IF U_BeforeRead(W0).trace.done THEN {encoder} ELSE Positions :
        \E pid_sum \in IF ComputesPid(U_BeforeControl(U_BeforeRead(W0), pos))
                        THEN PidSums ELSE {0} :
            Commit(Servo_update(W0, pos, pid_sum))

Stop == Commit(Servo_stop(Begin(World, "stop")))

Enable == Commit(Servo_enable(Begin(World, "enable"), TRUE))

Disable == Commit(Servo_enable(Begin(World, "disable"), FALSE))

PeelEnable ==
    \E enabled \in BOOLEAN :
        Commit(Servo_peel_enable(Begin(World, "peel_enable"), enabled))

(* The tuning procedure assigns the gains between its test runs, each of      *)
(* which it ends with stop(): the controller is idle.                         *)
SetGains ==
    /\ servo.target_reached /\ ~servo.waiting
    /\ \E Ki \in Kis \ {servo.Ki} :
           Commit([Begin(World, "set_gains") EXCEPT !.servo.Ki = Ki])

Next == SetTarget \/ Tick \/ Stop \/ Enable \/ Disable \/ PeelEnable

Spec == Init /\ [][Next]_vars

(* The peel sequencer on its own: direct calls of PeelMotor.run() and         *)
(* PeelMotor.update(), one period apart, and of HBridge.enable().             *)
Directions == {0 - 1, 0, 1, 2}
RunTimes == {0 - 1, 0, 1, MaxPeelTicks}
Speeds == {50, peel_speed, 0 - 120}

PeelRun ==
    \E direction_int \in Directions, time_ms \in RunTimes, speed \in Speeds :
        Commit(Peel_run(BeginWith(World, "peel_run",
                                  <<direction_int, time_ms, speed>>),
                        direction_int, time_ms, speed))

PeelUpdate == Commit(Peel_update(Advance(Begin(World, "peel_update"))))

BridgeEnable ==
    \E state \in BOOLEAN :
        Commit(HB_enable(BeginWith(World, "bridge_enable", state), state))

InitPeel == InitOf(PidConfigs, {20})

NextPeel == PeelRun \/ PeelUpdate \/ BridgeEnable

SpecPeel == InitPeel /\ [][NextPeel]_vars

(* The controller with failing hardware: a tick during which the encoder     *)
(* read, the drive command or the peel command raises an exception.  The      *)
(* main loop (flash/app.py:176-182) goes on calling update().                 *)
Faults == {"encoder", "drive", "peel"}

FaultConfigs ==
    [ tolerance       : {MaxTol},
      ramp_ticks      : {0},
      backlash_takeup : {MaxBacklash},
      stable_updates  : {MaxStable},
      peel_time       : {MaxPeelTicks},
      derivative_alpha : {0} ]

TickFault ==
    \E kind \in Faults :
        LET W0 == Advance(Fault(Begin(World, "update"), kind))
        IN  \E pos \in IF U_BeforeRead(W0).trace.done THEN {encoder}
                       ELSE Positions :
            \E pid_sum \in IF ComputesPid(U_BeforeControl(U_BeforeRead(W0), pos))
                            THEN PidSums ELSE {0} :
                Commit(Servo_update(W0, pos, pid_sum))

(* State after Servo(..., peel_enable=True) *)
InitFault ==
    /\ cfg \in FaultConfigs
    /\ servo \in [ setpoint : {0}, original_setpoint : {0},
                   target_reached : {TRUE}, backlash_active : {FALSE},
                   waiting : {FALSE}, forward : {TRUE},
                   stable_count : {0}, initial_error : {0},
                   integral : {0}, previous_error : {0}, derivative : {0},
                   Ki : {20},
                   peel_enabled : {TRUE} ]
    /\ peel = [state |-> STATE_STOPPED, speed |-> 0, target |-> 0, elapsed |-> 0]
    /\ drives = [enabled |-> FALSE, drive |-> 0, peel |-> 0]
    /\ encoder = 0
    /\ trace = [NewTrace("init") EXCEPT !.done = TRUE]
    /\ hist = [backward |-> FALSE, rev_done |-> FALSE, run |-> 0, ticks |-> 0,
               before |-> "Idle"]

NextFault == SetTarget \/ Tick \/ TickFault \/ Stop

SpecFault == InitFault /\ [][NextFault]_vars

(* The control output on its own: the reverse-leg output and the ramp output *)
(* of update() as functions of the limits, of the distance at the start of    *)
(* the move and of the current distance.  The inputs are in trace.arg; the    *)
(* drive command the tick would issue is left in trace.drive.  The limits are *)
(* values the constructor can leave in the object (non-negative, taper in     *)
(* 0..100); 0.6 * max_output and the taper speed are whole numbers for them.  *)
MaxDistance == 6
MaxCount == 5
MaxTurns == 12

OutputInputs ==
    [ max_output         : {50, 80, 100},
      min_output         : {0, 5, 60},
      ramp_taper_percent : {0, 30, 100},
      ramp_ticks         : {0, MaxRamp},
      initial_error      : 0 .. MaxDistance,
      distance           : 0 .. MaxDistance ]

ReverseCommand(in, distance) ==
    DriveCommandOf(in.max_output,
                   ReverseOutputOf(in.max_output, in.min_output,
                                   in.initial_error, distance))

RampCommand(in, distance) ==
    DriveCommandOf(in.max_output,
                   RampOutputOf(in.max_output, in.min_output,
                                in.ramp_taper_percent, in.ramp_ticks,
                                in.initial_error, distance))

(* servo.py:257: the reverse leg *)
ComputeReverse ==
    /\ trace.op = "inputs"
    /\ trace' = [NewTrace("reverse_output") EXCEPT
                     !.arg = trace.arg, !.done = TRUE,
                     !.drive = <<ReverseCommand(trace.arg, trace.arg.distance)>>]
    /\ UNCHANGED <<cfg, servo, peel, drives, encoder, hist>>

(* servo.py:265: the forward leg beyond ramp_ticks *)
ComputeRamp ==
    /\ trace.op = "inputs"
    /\ trace.arg.distance > trace.arg.ramp_ticks
    /\ trace' = [NewTrace("ramp_output") EXCEPT
                     !.arg = trace.arg, !.done = TRUE,
                     !.drive = <<RampCommand(trace.arg, trace.arg.distance)>>]
    /\ UNCHANGED <<cfg, servo, peel, drives, encoder, hist>>

InitOutput ==
    /\ cfg \in PidConfigs
    /\ servo \in [ setpoint : {0}, original_setpoint : {0},
                   target_reached : {TRUE}, backlash_active : {FALSE},
                   waiting : {FALSE}, forward : {TRUE},
                   stable_count : {0}, initial_error : {0},
                   integral : {0}, previous_error : {0}, derivative : {0},
                   Ki : {20},
                   peel_enabled : {FALSE} ]
    /\ peel = [state |-> STATE_STOPPED, speed |-> 0, target |-> 0, elapsed |-> 0]
    /\ drives = [enabled |-> FALSE, drive |-> 0, peel |-> 0]
    /\ encoder = 0
    /\ \E in \in OutputInputs :
           trace = [NewTrace("inputs") EXCEPT !.arg = in, !.done = TRUE]
    /\ hist = [backward |-> FALSE, rev_done |-> FALSE, run |-> 0, ticks |-> 0,
               before |-> "Idle"]

NextOutput == ComputeReverse \/ ComputeRamp

SpecOutput == InitOutput /\ [][NextOutput]_vars

(* Construction of the controller on its own.  The keyword arguments of      *)
(* Servo(...) are in cfg before the call; Construct runs Servo.__init__,      *)
(* which leaves in cfg the values the object keeps.  trace.ret tells whether  *)
(* the constructor returned an object (it has no raise statement, and neither *)
(* has PeelMotor.__init__).                                                   *)
Arguments ==
    [ tolerance          : {0 - MaxTol, MaxTol},
      ramp_ticks         : {0 - MaxRamp, MaxRamp},
      backlash_takeup    : {0 - MaxBacklash, MaxBacklash},
      stable_updates     : {MaxStable},
      peel_time          : {MaxPeelTicks},
      derivative_alpha   : {0},
      max_output         : {0 - 80, 4, 80},
      min_output         : {0 - 5, 5},
      ramp_taper_percent : {0 - 10, 30, 150} ]

Servo_init(W, args) ==
    [W EXCEPT !.trace.ret = TRUE,
              !.trace.arg =
                  [args EXCEPT !.max_output = Abs(@),
                               !.min_output = Abs(@),
                               !.backlash_takeup = Abs(@),
                               !.tolerance = Abs(@),
                               !.ramp_ticks = Abs(@),
                               !.ramp_taper_percent = Max(0, Min(100, @))]]

Construct ==
    /\ trace.op = "new"
    /\ LET W == Servo_init(Begin(World, "init"), cfg)
       IN  /\ cfg' = W.trace.arg
           /\ trace' = [W.trace EXCEPT !.arg = cfg, !.done = TRUE]
    /\ UNCHANGED <<servo, peel, drives, encoder, hist>>

InitNew ==
    /\ cfg \in Arguments
    /\ servo \in [ setpoint : {0}, original_setpoint : {0},
                   target_reached : {TRUE}, backlash_active : {FALSE},
                   waiting : {FALSE}, forward : {TRUE},
                   stable_count : {0}, initial_error : {0},
                   integral : {0}, previous_error : {0}, derivative : {0},
                   Ki : {20},
                   peel_enabled : {FALSE} ]
    /\ peel = [state |-> STATE_STOPPED, speed |-> 0, target |-> 0, elapsed |-> 0]
    /\ drives = [enabled |-> FALSE, drive |-> 0, peel |-> 0]
    /\ encoder = 0
    /\ trace = NewTrace("new")
    /\ hist = [backward |-> FALSE, rev_done |-> FALSE, run |-> 0, ticks |-> 0,
               before |-> "Idle"]

NextNew == Construct

SpecNew == InitNew /\ [][NextNew]_vars

(* The encoder on its own.  The timer counts modulo max_count + 1 (its       *)
(* period is max_count); Turn is one count of the shaft in either direction,  *)
(* EncoderUpdate is Encoder.update().  The RPM estimate is not modelled.      *)
(* hist keeps the count read by the constructor, the displacement of the      *)
(* shaft since then, its movement since the last sample, and whether every    *)
(* sample so far was taken within max_count // 2 counts of the previous one;  *)
(* the exploration follows the shaft up to MaxTurns counts from its start and *)
(* up to the first sample taken further than that from the previous one.      *)
MaxCounts == {MaxCount - 1, MaxCount}

Sign(x) == IF x > 0 THEN 1 ELSE IF x < 0 THEN 0 - 1 ELSE 0

(* Mutant: the delta is used as read, without the wrap-around correction *)
Encoder_update_raw_delta(E) ==
    LET current_count_raw == E.counter
        raw   == current_count_raw - E.last_count
        delta == IF E.invert THEN 0 - raw ELSE raw
    IN  [E EXCEPT !.delta = delta,
                  !.absolute_count = @ + delta,
                  !.direction = Sign(delta),
                  !.count = current_count_raw,
                  !.last_count = current_count_raw]

Encoder_update(E) ==
    LET current_count_raw == E.counter
        raw      == current_count_raw - E.last_count
        max_half == E.max_count \div 2
        wrapped  == IF Abs(raw) > max_half
                    THEN IF raw > 0 THEN raw - (E.max_count + 1)
                                    ELSE raw + (E.max_count + 1)
                    ELSE raw
        delta    == IF E.invert THEN 0 - wrapped ELSE wrapped
    IN  [E EXCEPT !.delta = delta,
                  !.absolute_count = @ + delta,
                  !.direction = Sign(delta),
                  !.count = current_count_raw,
                  !.last_count = current_count_raw]

(* encoder.py:44-45: the constructor reads the counter once *)
Encoder_init(max_count, invert, initial_count) ==
    [ max_count |-> max_count, invert |-> invert, counter |-> initial_count,
      count |-> initial_count, last_count |-> initial_count,
      absolute_count |-> initial_count, delta |-> 0, direction |-> 0 ]

Turn ==
    \E m \in {0 - 1, 1} :
        /\ hist.in_range
        /\ Abs(hist.moved + m) <= encoder.max_count
        /\ Abs(hist.displacement + m) <= MaxTurns
        /\ encoder' = [encoder EXCEPT
                           !.counter = (@ + m) % (encoder.max_count + 1)]
        /\ hist' = [hist EXCEPT !.moved = @ + m, !.displacement = @ + m]
        /\ trace' = [NewTrace("turn") EXCEPT !.arg = m, !.done = TRUE]
        /\ UNCHANGED <<cfg, servo, peel, drives>>

EncoderUpdate ==
    /\ encoder' = Encoder_update(encoder)
    /\ hist' = [hist EXCEPT
                    !.moved = 0,
                    !.in_range = @ /\ Abs(hist.moved) <= encoder.max_count \div 2]
    /\ trace' = [NewTrace("encoder_update") EXCEPT
                     !.arg = hist.moved, !.done = TRUE]
    /\ UNCHANGED <<cfg, servo, peel, drives>>

InitEncoder ==
    /\ cfg \in PidConfigs
    /\ servo \in [ setpoint : {0}, original_setpoint : {0},
                   target_reached : {TRUE}, backlash_active : {FALSE},
                   waiting : {FALSE}, forward : {TRUE},
                   stable_count : {0}, initial_error : {0},
                   integral : {0}, previous_error : {0}, derivative : {0},
                   Ki : {20},
                   peel_enabled : {FALSE} ]
    /\ peel = [state |-> STATE_STOPPED, speed |-> 0, target |-> 0, elapsed |-> 0]
    /\ drives = [enabled |-> FALSE, drive |-> 0, peel |-> 0]
    /\ \E max_count \in MaxCounts, invert \in BOOLEAN :
         \E initial_count \in {0, 1, max_count} :
           /\ encoder = Encoder_init(max_count, invert, initial_count)
           /\ hist = [initial |-> initial_count, displacement |-> 0,
                      moved |-> 0, in_range |-> TRUE]
    /\ trace = [NewTrace("encoder_init") EXCEPT !.done = TRUE]

NextEncoder == Turn \/ EncoderUpdate

SpecEncoder == InitEncoder /\ [][NextEncoder]_vars

(* The controller under the tuning procedure: moves, ticks, stop() and the    *)
(* assignment of gains, without the peel motor.                               *)
NextPid == SetTarget \/ Tick \/ Stop \/ SetGains

SpecPid == InitPid /\ [][NextPid]_vars

----------------------------------------------------------------------------
(* Vocabulary of the properties *)

Range(seq) == {seq[i] : i \in 1 .. Len(seq)}

Logged(msg) == msg \in Range(trace.log)

(* The step is a call of update() / of set_target(). *)
IsTick == trace'.op = "update"
IsSetTarget == trace'.op = "set_target"

(* What is_idle() answers inside the coming tick: the peel sequencer's state  *)
(* after the period has passed and PeelMotor.update() has run.                *)
PeelIdleAtTick == Peel_is_idle(U_Peel(Advance(World)))

(* Distance between the position read by the step and the setpoint it left. *)
Distance == Abs(servo.setpoint - encoder)

----------------------------------------------------------------------------
(* C1: backward move, peel motor enabled, reverse leg completed: at the first *)
(* tick at which the peel motor is idle the controller takes the original     *)
(* target as setpoint, enters the forward leg and commands the peel motor     *)
(* forward.  This is the safety half of the claim (each tick of the wait that *)
(* finds the peel motor idle makes the switch).                               *)
C1_SwitchAtFirstIdleTick ==
    [][ ( /\ Phase = "WaitPeelBeforeForwardLeg"
          /\ hist.backward
          /\ servo.peel_enabled
          /\ IsTick
          /\ PeelIdleAtTick )
        => ( /\ servo'.setpoint = servo.original_setpoint
             /\ servo'.forward
             /\ 1 \in Range(trace'.run) ) ]_vars

(* What the code does instead: with the peel motor enabled, no tick ever     *)
(* leaves the wait before the forward leg for the forward leg, so the switch  *)
(* of C1 does not happen eventually either.                                   *)
C1_WaitNeverReachesForwardLeg ==
    [][ (Phase = "WaitPeelBeforeForwardLeg" /\ servo.peel_enabled /\ IsTick)
        => Phase' \in {"WaitPeelBeforeForwardLeg", "ReverseLeg"} ]_vars

(* C2: once target_reached is true it stays true until the next set_target(), *)
(* and every update() in between returns False and issues no drive_set.       *)
C2_IdleTicksDoNothing ==
    [][ /\ (servo.target_reached /\ ~IsSetTarget) => servo'.target_reached
        /\ (servo.target_reached /\ IsTick)
               => (~trace'.ret /\ trace'.drive = <<>>) ]_vars

(* C2 witness: an idle tick of an enabled controller that stands away from    *)
(* its setpoint (an overshoot stop), and issues nothing.                      *)
C2_Witness ==
    /\ trace.op = "update" /\ trace.log = <<>> /\ trace.drive = <<>>
    /\ servo.target_reached /\ drives.enabled
    /\ Distance > cfg.tolerance

(* C3 as stated: in a backward move, before the reverse leg has completed,    *)
(* the controller is never in the forward leg, no positive drive command is   *)
(* issued and the setpoint is never equal to the original target.             *)
C3_NoTargetSetpointBeforeReverseDone ==
    (hist.backward /\ ~hist.rev_done)
    => /\ Phase # "ForwardLeg"
       /\ \A i \in 1 .. Len(trace.drive) : trace.drive[i] <= 0
       /\ servo.setpoint # servo.original_setpoint

(* C3 amended: in a backward move, before the reverse leg has completed, the  *)
(* controller is never in the forward leg, no positive drive command is       *)
(* issued, and the setpoint is target - (ramp_ticks + backlash_takeup), which *)
(* differs from the original target when ramp_ticks + backlash_takeup > 0.    *)
C3_ReverseLegFirst ==
    (hist.backward /\ ~hist.rev_done)
    => /\ Phase # "ForwardLeg"
       /\ \A i \in 1 .. Len(trace.drive) : trace.drive[i] <= 0
       /\ servo.setpoint
              = servo.original_setpoint - (cfg.ramp_ticks + cfg.backlash_takeup)
       /\ (cfg.ramp_ticks + cfg.backlash_takeup > 0
              => servo.setpoint # servo.original_setpoint)

(* C3 witness: a tick of the reverse leg that drives backward towards an      *)
(* overshoot setpoint below the target.                                       *)
C3_Witness ==
    /\ hist.backward /\ ~hist.rev_done /\ Phase = "ReverseLeg"
    /\ trace.op = "update" /\ Len(trace.drive) = 1 /\ trace.drive[1] < 0
    /\ servo.setpoint < servo.original_setpoint

(* C4: when set_target() or update() sets target_reached for a reason other   *)
(* than the overshoot rule, the position read in that call is within          *)
(* tolerance of the original target.                                          *)
C4_ReachedWithinTolerance ==
    [][ ( /\ \/ IsSetTarget
             \/ (IsTick /\ ~servo.target_reached)
          /\ servo'.target_reached
          /\ "overshoot" \notin Range(trace'.log) )
        => Abs(encoder' - servo'.original_setpoint) <= cfg.tolerance ]_vars

(* C4 witness: the forward leg of a backward move completes by stable count. *)
C4_Witness ==
    /\ trace.op = "update" /\ Logged("target_reached") /\ servo.target_reached
    /\ hist.backward /\ hist.rev_done
    /\ servo.setpoint = servo.original_setpoint
    /\ Distance <= cfg.tolerance

Rank(phase) ==
    CASE phase = "WaitPeelBeforeReverseLeg" -> 0
      [] phase = "ReverseLeg" -> 1
      [] phase = "WaitPeelBeforeForwardLeg" -> 2
      [] phase = "ForwardLeg" -> 3
      [] phase = "Idle" -> 4

(* C5: within one move the phase only advances in the order                   *)
(* WaitPeelBeforeReverseLeg, ReverseLeg, WaitPeelBeforeForwardLeg,            *)
(* ForwardLeg, Idle: no step but set_target() takes it to an earlier phase.   *)
C5_PhaseOrder ==
    [][ ~IsSetTarget => Rank(Phase') >= Rank(Phase) ]_vars

(* C6: while the controller waits on a running peel motor, the last command   *)
(* applied to the main drive is 0, and an update() that leaves it waiting     *)
(* returned True.                                                             *)
C6_NoMotionWhileWaiting ==
    ( /\ Phase \in {"WaitPeelBeforeReverseLeg", "WaitPeelBeforeForwardLeg"}
      /\ servo.peel_enabled
      /\ ~Peel_is_idle(World) )
    => /\ drives.drive = 0
       /\ trace.op = "update" => trace.ret

(* What is_idle() answers in the step: in set_target() the sequencer's state *)
(* as the call finds it, in update() its state after PeelMotor.update().      *)
PeelIdleInStep == IF IsTick THEN PeelIdleAtTick ELSE Peel_is_idle(World)

(* C7: with the peel motor enabled, the reverse leg starts (the peel motor is *)
(* commanded reverse, a negative drive command follows) only in a step that   *)
(* finds the peel sequencer idle; a backward set_target() that finds it       *)
(* running enters the wait, and a tick of that wait that finds it running     *)
(* stays in the wait and commands nothing.                                    *)
C7_ReverseLegStartsWhenPeelIdle ==
    [][ servo.peel_enabled
        => /\ ((IsSetTarget \/ IsTick) /\ (0 - 1) \in Range(trace'.run))
                  => PeelIdleInStep
           /\ (IsSetTarget /\ hist'.backward /\ ~PeelIdleInStep)
                  => /\ Phase' = "WaitPeelBeforeReverseLeg"
                     /\ trace'.run = <<>> /\ trace'.drive = <<>>
           /\ (IsTick /\ Phase = "WaitPeelBeforeReverseLeg" /\ ~PeelIdleInStep)
                  => /\ Phase' = "WaitPeelBeforeReverseLeg"
                     /\ trace'.ret
                     /\ trace'.run = <<>> /\ trace'.drive = <<>>
           /\ (IsTick /\ Phase' = "ReverseLeg" /\ Phase # "ReverseLeg")
                  => (0 - 1) \in Range(trace'.run) ]_vars

(* C7 witness: the tick that ends the wait before the reverse leg: the peel   *)
(* timer of the previous move has expired, the peel motor is commanded        *)
(* reverse and the drive backward.                                            *)
C7_Witness ==
    /\ trace.op = "update" /\ Logged("peel_idle_starting_phase1")
    /\ hist.backward /\ ~hist.rev_done /\ Phase = "ReverseLeg"
    /\ servo.peel_enabled /\ peel.state = STATE_REVERSE
    /\ trace.peel = <<0, 0 - peel_speed>>
    /\ Len(trace.drive) = 1 /\ trace.drive[1] < 0

(* The step is a tick of the forward leg that the overshoot rule ends. *)
OvershootTick ==
    /\ IsTick /\ Phase = "ForwardLeg"
    /\ encoder' > servo.setpoint + cfg.tolerance

(* The tick completed the move by the completion rule. *)
CompletedByRule ==
    /\ "target_reached" \in Range(trace'.log)
    /\ servo'.target_reached /\ ~trace'.ret
    /\ trace'.drive = <<0>> /\ drives'.drive = 0

(* C8 as stated: in the forward leg update() completes the move by the        *)
(* completion rule exactly on the tick at which distance <= tolerance has     *)
(* held for stable_updates consecutive ticks; any tick with distance >        *)
(* tolerance resets the count to 0; an in-tolerance tick with a smaller count *)
(* returns True.                                                              *)
C8_CompletionEveryTickResets ==
    [][ (IsTick /\ Phase = "ForwardLeg")
        => /\ CompletedByRule <=> hist'.run >= cfg.stable_updates
           /\ Abs(servo.setpoint - encoder') > cfg.tolerance
                  => servo'.stable_count = 0
           /\ ( /\ Abs(servo.setpoint - encoder') <= cfg.tolerance
                /\ hist'.run < cfg.stable_updates ) => trace'.ret ]_vars

(* C8 amended: the same, except that the count is reset to 0 by every tick    *)
(* with distance > tolerance that the overshoot rule does not end (a tick     *)
(* ended by the overshoot rule leaves the count as it was).                   *)
C8_CompletionRule ==
    [][ (IsTick /\ Phase = "ForwardLeg")
        => /\ CompletedByRule <=> hist'.run >= cfg.stable_updates
           /\ servo'.stable_count = IF OvershootTick THEN servo.stable_count
                                    ELSE hist'.run
           /\ ( /\ Abs(servo.setpoint - encoder') > cfg.tolerance
                /\ ~OvershootTick ) => servo'.stable_count = 0
           /\ ( /\ Abs(servo.setpoint - encoder') <= cfg.tolerance
                /\ hist'.run < cfg.stable_updates ) => trace'.ret ]_vars

(* C8 witness: a move completed on the second consecutive in-tolerance tick. *)
C8_Witness ==
    /\ trace.op = "update" /\ Logged("target_reached")
    /\ cfg.stable_updates = MaxStable /\ hist.run = cfg.stable_updates
    /\ servo.target_reached /\ ~trace.ret

(* C9: a forward-leg tick with distance <= tolerance that does not complete   *)
(* the move issues no non-zero drive command and leaves the drive at 0.       *)
C9_HoldIssuesZero ==
    [][ ( /\ IsTick /\ Phase = "ForwardLeg"
          /\ Abs(servo.setpoint - encoder') <= cfg.tolerance
          /\ ~servo'.target_reached )
        => /\ \A i \in 1 .. Len(trace'.drive) : trace'.drive[i] = 0
           /\ drives'.drive = 0 ]_vars

(* C10: a forward-leg tick with position > setpoint + tolerance commands zero *)
(* drive, sets target_reached and returns False; from then on, until the next *)
(* set_target(), target_reached stays set and no step issues a negative drive *)
(* command.                                                                   *)
C10_OvershootStops ==
    [][ /\ OvershootTick
            => /\ trace'.drive = <<0>> /\ drives'.drive = 0
               /\ servo'.target_reached /\ ~trace'.ret
               /\ Phase' = "Idle"
        /\ (servo.target_reached /\ ~IsSetTarget)
            => /\ servo'.target_reached
               /\ \A i \in 1 .. Len(trace'.drive) : trace'.drive[i] >= 0 ]_vars

(* C10 witness: the forward leg of a backward move stopped by the overshoot   *)
(* rule.                                                                      *)
C10_Witness ==
    /\ trace.op = "update" /\ Logged("overshoot")
    /\ hist.backward /\ hist.rev_done
    /\ encoder > servo.setpoint + cfg.tolerance
    /\ servo.target_reached /\ ~trace.ret /\ trace.drive = <<0>>

----------------------------------------------------------------------------
(* The current move is a forward move that set_target() started within        *)
(* ramp_ticks of the target (initial_error is the distance it computed at     *)
(* line 139; no forward move changes it afterwards).                          *)
NearForwardMove(sv, h) ==
    /\ ~h.backward
    /\ sv.initial_error <= cfg.ramp_ticks

(* The tick reached the control output calculation (servo.py:253-307). *)
ComputedOutput ==
    Range(trace'.log) \cap {"control_reverse", "control_ramp", "control_pid"} # {}

(* C11 as stated: in a forward move started with |target - current| <=        *)
(* ramp_ticks no reverse leg or wait phase is entered, no negative drive      *)
(* command is issued, and the first tick that computes an output uses the PID *)
(* sub-phase, not the ramp sub-phase.                                         *)
C11_NearForwardMoveUsesPid ==
    [][ NearForwardMove(servo', hist')
        => /\ Phase' \in {"ForwardLeg", "Idle"}
           /\ \A i \in 1 .. Len(trace'.drive) : trace'.drive[i] >= 0
           /\ (IsTick /\ hist.ticks = 0 /\ ComputedOutput)
                  => "control_pid" \in Range(trace'.log) ]_vars

(* C11 amended: the same, except that the first tick that computes an output  *)
(* uses the PID sub-phase when the position it reads is within ramp_ticks of  *)
(* the target, and the ramp sub-phase when it is not.                         *)
C11_NearForwardMove ==
    [][ NearForwardMove(servo', hist')
        => /\ Phase' \in {"ForwardLeg", "Idle"}
           /\ \A i \in 1 .. Len(trace'.drive) : trace'.drive[i] >= 0
           /\ (IsTick /\ hist.ticks = 0 /\ ComputedOutput)
                  => IF Abs(servo'.setpoint - encoder') <= cfg.ramp_ticks
                     THEN "control_pid" \in Range(trace'.log)
                     ELSE "control_ramp" \in Range(trace'.log) ]_vars

(* C11 witness: the first tick of a forward move started within ramp_ticks    *)
(* and beyond the tolerance issues the clamped PID sum.                       *)
C11_Witness ==
    /\ trace.op = "update" /\ hist.ticks = 1
    /\ NearForwardMove(servo, hist) /\ servo.initial_error > cfg.tolerance
    /\ Logged("control_pid")
    /\ Len(trace.drive) = 1 /\ trace.drive[1] >= min_output

----------------------------------------------------------------------------
(* The tick computed the PID sum, and with it the integral (servo.py:284-300). *)
ComputedPidSum ==
    /\ IsTick /\ "control_pid" \in Range(trace'.log)
    /\ Abs(servo'.setpoint - encoder') > cfg.tolerance

(* C12 as stated: whenever Ki # 0, after every update() the stored integral   *)
(* satisfies |integral| <= max_output / Ki.                                   *)
C12_IntegralWithinLimit ==
    (trace.op = "update" /\ servo.Ki # 0)
    => Abs(servo.integral) <= Div(max_output, servo.Ki)

(* C12 amended: whenever Ki # 0, after every update() that computes the PID   *)
(* sum the stored integral satisfies |integral| <= max_output / |Ki|, and no  *)
(* call other than an assignment of the gain breaks that bound.               *)
C12_AntiWindup ==
    [][ /\ (ComputedPidSum /\ servo'.Ki # 0)
            => Abs(servo'.integral) <= Div(max_output, Abs(servo'.Ki))
        /\ ( /\ trace'.op # "set_gains" /\ servo.Ki # 0
             /\ Abs(servo.integral) <= Div(max_output, Abs(servo.Ki)) )
            => Abs(servo'.integral) <= Div(max_output, Abs(servo'.Ki)) ]_vars

(* C12 witness: a tick of the PID sub-phase that leaves the integral at its   *)
(* limit, after two ticks that accumulated it.                                *)
C12_Witness ==
    /\ trace.op = "update" /\ Logged("control_pid") /\ hist.ticks = 2
    /\ servo.Ki > 0 /\ Distance > cfg.tolerance
    /\ servo.integral = Div(max_output, servo.Ki)

----------------------------------------------------------------------------
(* C13: every drive command issued by update() has a magnitude of at most     *)
(* max_output, and unless the tick computed the output of the reverse leg the *)
(* magnitude is not strictly between 0 and min_output.                        *)
C13_OutputRange ==
    [][ IsTick
        => \A i \in 1 .. Len(trace'.drive) :
              /\ Abs(trace'.drive[i]) <= max_output
              /\ "control_reverse" \notin Range(trace'.log)
                     => ~(0 < Abs(trace'.drive[i])
                            /\ Abs(trace'.drive[i]) < min_output) ]_vars

(* C13 witness: a tick of the PID sub-phase whose sum is below min_output     *)
(* issues min_output.                                                         *)
C13_Witness ==
    /\ trace.op = "update" /\ Logged("control_pid")
    /\ Distance > cfg.tolerance
    /\ trace.drive = <<min_output>> /\ drives.drive = min_output

----------------------------------------------------------------------------
(* C14: stop() leaves the controller idle whatever the phase it is called in: *)
(* target_reached is set, no wait or leg flag remains, zero was commanded and *)
(* is the drive command in effect, the peel sequencer (if enabled) is         *)
(* Stopped; the ticks of an idle controller return False and leave it idle.   *)
C14_StopLeavesIdle ==
    [][ /\ trace'.op = "stop"
            => /\ servo'.target_reached
               /\ ~servo'.waiting /\ ~servo'.backlash_active
               /\ Phase' = "Idle"
               /\ trace'.drive = <<0>> /\ drives'.drive = 0
               /\ servo'.peel_enabled => peel'.state = STATE_STOPPED
        /\ (Phase = "Idle" /\ IsTick)
            => (~trace'.ret /\ Phase' = "Idle") ]_vars

(* C14 witness: stop() called in the wait before the forward leg, with the    *)
(* peel motor running: the sequencer is stopped and the controller is idle.   *)
C14_Witness ==
    /\ trace.op = "stop" /\ hist.before = "WaitPeelBeforeForwardLeg"
    /\ servo.peel_enabled /\ trace.peel = <<0>>
    /\ peel.state = STATE_STOPPED /\ Phase = "Idle"

----------------------------------------------------------------------------
(* Two worlds with the same controller, peel sequencer and actuator state. *)
SameState(W1, W2) ==
    /\ W1.servo = W2.servo /\ W1.peel = W2.peel
    /\ W1.drives = W2.drives /\ W1.encoder = W2.encoder

(* C15: stop() and disable() are idempotent: in the state that a call of      *)
(* stop() (of disable()) leaves, a second call changes nothing of the         *)
(* controller, the peel sequencer and the actuator.                           *)
C15_StopDisableIdempotent ==
    [][ /\ trace'.op = "stop"
            => SameState(Servo_stop(Begin(World, "stop")), World)'
        /\ trace'.op = "disable"
            => SameState(Servo_enable(Begin(World, "disable"), FALSE), World)' ]_vars

(* C15 witness: disable() called during the reverse leg with the peel motor   *)
(* running; a second disable() would leave the same state.                    *)
C15_Witness ==
    /\ trace.op = "disable" /\ hist.before = "ReverseLeg"
    /\ servo.peel_enabled /\ trace.peel = <<0>> /\ trace.drive = <<0>>
    /\ ~drives.enabled /\ drives.drive = 0
    /\ SameState(Servo_enable(Begin(World, "disable"), FALSE), World)

----------------------------------------------------------------------------
(* C16: immediately after every set_target() the PID working set is reset:    *)
(* integral = 0, filtered derivative = 0, stable_count = 0 and                *)
(* previous_error = setpoint - current position.                              *)
C16_SetTargetResetsPid ==
    trace.op = "set_target"
    => /\ servo.integral = 0
       /\ servo.derivative = 0
       /\ servo.stable_count = 0
       /\ servo.previous_error = servo.setpoint - encoder

----------------------------------------------------------------------------
(* C17 as stated: after set_target(target) read at position p, if target < p  *)
(* the setpoint is target - (ramp_ticks + backlash_takeup) and the phase is   *)
(* the reverse leg or its wait; otherwise the setpoint is target and the      *)
(* phase is the forward leg; in both cases original_setpoint = target.        *)
C17_SetTargetForwardLeg ==
    trace.op = "set_target"
    => /\ servo.original_setpoint = trace.arg
       /\ IF trace.arg < encoder
          THEN /\ servo.setpoint
                      = trace.arg - (cfg.ramp_ticks + cfg.backlash_takeup)
               /\ Phase \in {"ReverseLeg", "WaitPeelBeforeReverseLeg"}
          ELSE /\ servo.setpoint = trace.arg
               /\ Phase = "ForwardLeg"

(* C17 amended: the same, except that a forward or zero move that starts      *)
(* within tolerance of the target is idle at once instead of in the forward   *)
(* leg.                                                                       *)
C17_SetTargetPhase ==
    trace.op = "set_target"
    => /\ servo.original_setpoint = trace.arg
       /\ IF trace.arg < encoder
          THEN /\ servo.setpoint
                      = trace.arg - (cfg.ramp_ticks + cfg.backlash_takeup)
               /\ Phase \in {"ReverseLeg", "WaitPeelBeforeReverseLeg"}
          ELSE /\ servo.setpoint = trace.arg
               /\ Phase = IF Abs(trace.arg - encoder) <= cfg.tolerance
                          THEN "Idle" ELSE "ForwardLeg"

(* C17 witness: a backward set_target() to a target other than that of the   *)
(* previous move starts in the reverse leg, with the setpoint at its          *)
(* overshoot point below the target.                                          *)
C17_Witness ==
    /\ trace.op = "set_target" /\ trace.arg = 1 /\ trace.arg < encoder
    /\ hist.before # "Idle"
    /\ cfg.ramp_ticks + cfg.backlash_takeup > 0
    /\ servo.setpoint = trace.arg - (cfg.ramp_ticks + cfg.backlash_takeup)
    /\ servo.original_setpoint = 1
    /\ Phase = "ReverseLeg"

----------------------------------------------------------------------------
(* C18: set_target() for a forward or zero move within tolerance of the       *)
(* target marks target_reached at once and commands zero drive, and stops the *)
(* peel motor exactly when target = current position (and the peel motor is   *)
(* enabled); a forward move beyond the tolerance is not marked; a backward    *)
(* move is never marked, also when its overshoot point is within tolerance.   *)
C18_SetTargetShortcut ==
    trace.op = "set_target"
    => IF trace.arg < encoder
       THEN ~servo.target_reached
       ELSE IF Abs(trace.arg - encoder) <= cfg.tolerance
       THEN /\ servo.target_reached
            /\ trace.drive = <<0>> /\ drives.drive = 0
            /\ 0 \in Range(trace.run)
                   <=> (trace.arg = encoder /\ servo.peel_enabled)
       ELSE ~servo.target_reached /\ trace.drive = <<>>

(* C18 witness: a backward set_target() read within tolerance of its          *)
(* overshoot point stays in the reverse leg, unmarked.                        *)
C18_Witness ==
    /\ trace.op = "set_target" /\ trace.arg < encoder
    /\ Abs(servo.setpoint - encoder) <= cfg.tolerance
    /\ Logged("phase1_near_overshoot_target")
    /\ ~servo.target_reached /\ Phase = "ReverseLeg"

----------------------------------------------------------------------------
(* C19: update() on a disabled controller returns False, issues no drive      *)
(* command, changes nothing of the controller (setpoint, flags, PID memory)   *)
(* nor of the actuator, and leaves the peel sequencer (if enabled) Stopped.   *)
C19_DisabledTick ==
    [][ (IsTick /\ ~drives.enabled)
        => /\ ~trace'.ret
           /\ trace'.drive = <<>>
           /\ servo' = servo
           /\ drives' = drives
           /\ encoder' = encoder
           /\ servo.peel_enabled => peel'.state = STATE_STOPPED ]_vars

(* C19 witness: a tick of a controller that was disabled during a move, away  *)
(* from its setpoint, with the peel motor enabled.                            *)
C19_Witness ==
    /\ trace.op = "update" /\ ~drives.enabled
    /\ servo.peel_enabled /\ peel.state = STATE_STOPPED
    /\ Distance > cfg.tolerance /\ hist.ticks = 2
    /\ ~trace.ret /\ trace.drive = <<>> /\ trace.log = <<>>

----------------------------------------------------------------------------
(* The state PeelMotor.run() maps a direction to (peel.py:32). *)
StateOf(direction_int) ==
    IF direction_int = 1 THEN STATE_FORWARD
    ELSE IF direction_int = 0 - 1 THEN STATE_REVERSE
    ELSE STATE_STOPPED

(* C20: PeelMotor.run(d, t, s) with d # 0 and t > 0, called while the         *)
(* sequencer runs in direction d at speed s, only restarts the timer with     *)
(* duration t: direction and speed are unchanged and no peel_set command is   *)
(* issued.                                                                    *)
C20_SameRunRestartsTimer ==
    [][ ( /\ trace'.op = "peel_run"
          /\ trace'.arg[1] \in {0 - 1, 1} /\ trace'.arg[2] > 0
          /\ peel.state = StateOf(trace'.arg[1])
          /\ peel.speed = Min(Abs(trace'.arg[3]), 100) )
        => /\ peel'.state = peel.state /\ peel'.speed = peel.speed
           /\ peel'.target = trace'.arg[2] /\ peel'.elapsed = 0
           /\ trace'.peel = <<>>
           /\ drives' = drives ]_vars

(* C20 witness: run(-1, 1, 50) on a sequencer that has been running reverse   *)
(* at speed 50 with a longer duration: no command, the timer starts again     *)
(* with duration 1.                                                           *)
C20_Witness ==
    /\ trace.op = "peel_run" /\ trace.arg = <<0 - 1, 1, 50>>
    /\ Logged("peel_timer_reset") /\ trace.peel = <<>>
    /\ peel = [state |-> STATE_REVERSE, speed |-> 50, target |-> 1,
               elapsed |-> 0]
    /\ drives.enabled /\ drives.peel = 0 - 50

----------------------------------------------------------------------------
(* The step is a direct call of PeelMotor.run(). *)
IsPeelRun == trace'.op = "peel_run"

PeelStoppedCleared ==
    [state |-> STATE_STOPPED, speed |-> 0, target |-> 0, elapsed |-> 0]

(* C21: PeelMotor.run(0) while the sequencer is Forward or Reverse moves it   *)
(* to Stopped within the call, clears speed and timer, and issues exactly one *)
(* peel_set(0) command.  (run(0) takes the default duration, which is not     *)
(* negative.)                                                                 *)
C21_RunZeroStops ==
    [][ ( /\ IsPeelRun
          /\ trace'.arg[1] = 0 /\ trace'.arg[2] >= 0
          /\ peel.state \in {STATE_FORWARD, STATE_REVERSE} )
        => /\ peel' = PeelStoppedCleared
           /\ trace'.peel = <<0>> ]_vars

(* C21 witness: run(0) with the default duration and speed has stopped a      *)
(* sequencer that was running on an enabled bridge.                           *)
C21_Witness ==
    /\ trace.op = "peel_run" /\ trace.arg = <<0, cfg.peel_time, peel_speed>>
    /\ Logged("peel_immediate_stop")
    /\ trace.peel = <<0>> /\ peel = PeelStoppedCleared
    /\ drives.enabled /\ drives.peel = 0

----------------------------------------------------------------------------
(* The step is a direct call of PeelMotor.update(), one period after the      *)
(* previous call.                                                             *)
IsPeelUpdate == trace'.op = "peel_update"

(* Time elapsed since the last run() when the coming tick reads the clock. *)
ElapsedAtTick == Advance(World).peel.elapsed

(* C22: after PeelMotor.run(d, t, s) with d # 0 and t > 0 and no further      *)
(* run() call, the sequencer stays in direction d on every tick with elapsed  *)
(* time < t, moves to Stopped on the first tick with elapsed time >= t,       *)
(* issuing exactly one stop command, and every later tick issues no command.  *)
C22_RunExpires ==
    [][ IsPeelUpdate
        => /\ ( peel.state # STATE_STOPPED /\ ElapsedAtTick < peel.target )
              => /\ peel' = [peel EXCEPT !.elapsed = ElapsedAtTick]
                 /\ trace'.peel = <<>>
           /\ ( peel.state # STATE_STOPPED /\ ElapsedAtTick >= peel.target )
              => /\ peel' = PeelStoppedCleared
                 /\ trace'.peel = <<0>>
           /\ peel.state = STATE_STOPPED
              => /\ peel' = peel
                 /\ trace'.peel = <<>> ]_vars

(* A running sequencer has a positive duration: the three cases of C22 are    *)
(* all the cases.                                                             *)
PeelRunningHasDuration ==
    peel.state # STATE_STOPPED => peel.target > 0 /\ peel.elapsed < peel.target

(* C22 witness: the tick at which a run's duration has elapsed stopped the    *)
(* sequencer with one stop command.                                           *)
C22_Witness ==
    /\ trace.op = "peel_update" /\ Logged("peel_timer_complete")
    /\ trace.peel = <<0>> /\ peel = PeelStoppedCleared
    /\ drives.enabled /\ drives.peel = 0

----------------------------------------------------------------------------
(* The speed PeelMotor.run() makes of its argument (peel.py:44). *)
ActualSpeed(speed) == Min(Abs(speed), 100)

(* C23: PeelMotor.run(d, t, s) with d # 0 and t > 0 whose direction or speed  *)
(* differs from the current one issues one actuator command with the new      *)
(* signed speed in that call and restarts the timer with duration t.          *)
C23_ChangedRunCommands ==
    [][ ( /\ IsPeelRun
          /\ trace'.arg[1] \in {0 - 1, 1} /\ trace'.arg[2] > 0
          /\ \/ peel.state # StateOf(trace'.arg[1])
             \/ peel.speed # ActualSpeed(trace'.arg[3]) )
        => /\ trace'.peel = <<trace'.arg[1] * ActualSpeed(trace'.arg[3])>>
           /\ peel' = [state |-> StateOf(trace'.arg[1]),
                       speed |-> ActualSpeed(trace'.arg[3]),
                       target |-> trace'.arg[2], elapsed |-> 0] ]_vars

(* C23 witness: run(-1, 1, -120) on a sequencer running in the same direction *)
(* at another speed: one command at the new speed -100, duration 1.           *)
C23_Witness ==
    /\ trace.op = "peel_run" /\ trace.arg = <<0 - 1, 1, 0 - 120>>
    /\ Logged("peel_speed_change")
    /\ trace.peel = <<0 - 100>>
    /\ peel = [state |-> STATE_REVERSE, speed |-> 100, target |-> 1,
               elapsed |-> 0]
    /\ drives.enabled /\ drives.peel = 0 - 100

----------------------------------------------------------------------------
(* A configuration outside the ranges of the options: limits in 0..100 with   *)
(* max_output >= min_output, distances >= 0, taper in 0..100.                 *)
InvalidConfiguration(args) ==
    \/ args.tolerance < 0 \/ args.backlash_takeup < 0 \/ args.ramp_ticks < 0
    \/ args.max_output \notin 0 .. 100 \/ args.min_output \notin 0 .. 100
    \/ args.max_output < args.min_output
    \/ args.ramp_taper_percent \notin 0 .. 100

(* C24: constructing the controller with an invalid configuration (a negative *)
(* tolerance, max_output < min_output, ramp_taper_percent outside 0..100) is  *)
(* rejected with an error; no invalid value is silently clamped or            *)
(* sign-flipped into a working controller.                                    *)
C24_InvalidConfigurationRejected ==
    ( trace.op = "init" /\ InvalidConfiguration(trace.arg) ) => ~trace.ret

----------------------------------------------------------------------------
(* What the coming tick does when no call fails, reading position pos. *)
TickWithoutFault(pos) == Servo_update(Advance(Begin(World, "update")), pos, 0)

(* The tick of the step makes the call that trace'.fault lets fail: it reads  *)
(* the encoder, or issues a drive or peel command on an enabled bridge.       *)
FailingCallMade ==
    \/ /\ trace'.fault = "encoder"
       /\ ~U_BeforeRead(Advance(Begin(World, "update"))).trace.done
    \/ /\ trace'.fault = "drive" /\ drives.enabled
       /\ TickWithoutFault(encoder').trace.drive # <<>>
    \/ /\ trace'.fault = "peel" /\ drives.enabled
       /\ TickWithoutFault(encoder').trace.peel # <<>>

(* C25: a failure raised by the encoder read or by a motor command inside     *)
(* update() propagates out of update() to the caller; update() never swallows *)
(* it and returns normally.                                                   *)
C25_FailurePropagates ==
    [][ ( IsTick /\ FailingCallMade ) => trace'.raised ]_vars

(* C25 witness: the zero command of the overshoot stop failed; update() ended *)
(* there, before it marked the target as reached.                             *)
C25_Witness ==
    /\ trace.op = "update" /\ trace.fault = "drive" /\ trace.raised
    /\ Logged("overshoot") /\ trace.drive = <<0>>
    /\ ~servo.target_reached /\ drives.drive # 0

----------------------------------------------------------------------------
(* Number of PeelMotor.run(-1) calls in a sequence of run() calls. *)
ReverseRunsIn(runs) == Cardinality({i \in 1 .. Len(runs) : runs[i] = 0 - 1})

(* The step starts the reverse leg of a backward move: set_target() that      *)
(* finds the peel sequencer idle, or the tick that ends the wait before the   *)
(* reverse leg.                                                               *)
ReverseLegStarts ==
    \/ IsSetTarget /\ hist'.backward /\ Peel_is_idle(World)
    \/ /\ IsTick /\ Phase = "WaitPeelBeforeReverseLeg"
       /\ PhaseOf(servo', hist') # "WaitPeelBeforeReverseLeg"

(* C26: with the peel motor enabled, in every backward move the peel motor is *)
(* commanded to run reverse exactly once, at the step where the reverse leg   *)
(* starts (in set_target() if the peel motor is idle, otherwise at the tick   *)
(* that ends the wait); it is not commanded reverse again during that move.   *)
C26_ReverseRunOncePerMove ==
    [][ ( (IsTick \/ IsSetTarget) /\ servo.peel_enabled )
        => ReverseRunsIn(trace'.run) = IF ReverseLegStarts THEN 1 ELSE 0 ]_vars

----------------------------------------------------------------------------
(* C27: the setpoint changes only in set_target() and in the substitution     *)
(* that ends the reverse leg inside update(); stop(), enable(), disable(),    *)
(* peel_enable(), waiting ticks, reverse-leg ticks that do not complete the   *)
(* leg, and all forward-leg ticks leave setpoint and original_setpoint        *)
(* unchanged.  (The substitution is the block that logs "Transitioning to     *)
(* Phase 2"; a tick that stays in a wait or in the reverse leg does not reach *)
(* it.)                                                                       *)
C27_SetpointFrame ==
    [][ /\ servo'.setpoint # servo.setpoint
           => \/ IsSetTarget
              \/ /\ IsTick /\ "transitioning_to_phase2" \in Range(trace'.log)
                 /\ Phase \notin {"Idle", "ForwardLeg"}
                 /\ servo'.setpoint = servo.original_setpoint
        /\ servo'.original_setpoint # servo.original_setpoint => IsSetTarget
      ]_vars

(* C27 witness: a stop() during the reverse leg of a backward move has left   *)
(* the overshoot setpoint, which differs from the target, in place.           *)
C27_Witness ==
    /\ trace.op = "stop" /\ hist.before = "ReverseLeg"
    /\ servo.setpoint = servo.original_setpoint
                         - (cfg.ramp_ticks + cfg.backlash_takeup)
    /\ servo.setpoint # servo.original_setpoint

----------------------------------------------------------------------------
(* C28: because the peel sequencer is ticked before any idle check in         *)
(* update(), a controller waiting before the reverse leg leaves the wait and  *)
(* starts the reverse leg in the very tick at which the peel run's duration   *)
(* has elapsed, not one tick later.                                           *)
C28_WaitEndsAtExpiry ==
    [][ ( /\ IsTick /\ Phase = "WaitPeelBeforeReverseLeg"
          /\ peel.state # STATE_STOPPED /\ ElapsedAtTick >= peel.target )
        => /\ "peel_idle_starting_phase1" \in Range(trace'.log)
           /\ trace'.peel = <<0, 0 - peel_speed>>
           /\ trace'.run = <<0 - 1>>
           /\ PhaseOf(servo', hist') # "WaitPeelBeforeReverseLeg"
           /\ peel'.state = STATE_REVERSE
           /\ \/ /\ PhaseOf(servo', hist') = "ReverseLeg"
                 /\ Len(trace'.drive) = 1 /\ trace'.drive[1] < 0
              \/ /\ encoder' <= servo.setpoint
                 /\ PhaseOf(servo', hist') = "WaitPeelBeforeForwardLeg" ]_vars

(* C28 witness: the tick at which the forward peel run expired ended the wait *)
(* and started the reverse leg: peel stopped, then run reverse, and the drive *)
(* commanded backwards.                                                       *)
C28_Witness ==
    /\ trace.op = "update" /\ hist.before = "WaitPeelBeforeReverseLeg"
    /\ Logged("peel_timer_complete") /\ Logged("peel_idle_starting_phase1")
    /\ trace.peel = <<0, 0 - peel_speed>>
    /\ Phase = "ReverseLeg"
    /\ Len(trace.drive) = 1 /\ trace.drive[1] < 0 /\ drives.drive < 0

----------------------------------------------------------------------------
(* C29: the reverse leg completes only on a tick where position <= overshoot  *)
(* setpoint: while position > setpoint the controller keeps issuing a         *)
(* negative drive command and does not count stable ticks, even if the        *)
(* position is within tolerance of the overshoot setpoint.                    *)
C29_ReverseLegCompletion ==
    [][ ( IsTick /\ Phase = "ReverseLeg" )
        => /\ encoder' > servo.setpoint
              => /\ Len(trace'.drive) = 1 /\ trace'.drive[1] < 0
                 /\ trace'.ret
                 /\ servo'.stable_count = 0
                 /\ servo'.setpoint = servo.setpoint
                 /\ PhaseOf(servo', hist') = "ReverseLeg"
           /\ "phase1_complete" \in Range(trace'.log)
              => encoder' <= servo.setpoint ]_vars

(* C29 witness: a reverse-leg tick read a position above the overshoot        *)
(* setpoint but within tolerance of it, and drove backwards.                  *)
C29_Witness ==
    /\ trace.op = "update" /\ hist.before = "ReverseLeg"
    /\ Phase = "ReverseLeg"
    /\ encoder > servo.setpoint
    /\ encoder - servo.setpoint <= cfg.tolerance
    /\ Logged("control_reverse")
    /\ Len(trace.drive) = 1 /\ trace.drive[1] < 0 /\ drives.drive < 0
    /\ servo.stable_count = 0

----------------------------------------------------------------------------
(* C30: the peel sequencer's direction never changes directly from Forward to *)
(* Reverse or from Reverse to Forward: between any two states with opposite   *)
(* directions there is a Stopped state, both for direct run() calls and for   *)
(* runs commanded by the controller.  (An operation that leaves the          *)
(* sequencer in the opposite direction went through Stopped iff it issued the *)
(* stop command peel_set(0), which _set_state issues on every stop.)          *)
OppositeDirections ==
    \/ peel.state = STATE_FORWARD /\ peel'.state = STATE_REVERSE
    \/ peel.state = STATE_REVERSE /\ peel'.state = STATE_FORWARD

C30_NoDirectReversal ==
    [][ OppositeDirections => 0 \in Range(trace'.peel) ]_vars

----------------------------------------------------------------------------
(* 0.6 * max_output, the speed the reverse leg starts from (servo.py:258) *)
ReverseStart(in) == (in.max_output * 6) \div 10

(* The inputs of a reverse-leg tick that does not complete the leg: a         *)
(* backward move starts above its overshoot setpoint (initial error >= 1) and *)
(* the tick reads a position above it (distance >= 1).                        *)
ReverseLegInputs(in) ==
    /\ in.min_output <= in.max_output
    /\ in.initial_error >= 1 /\ in.distance >= 1

(* C31 as stated: every drive command issued on a reverse-leg tick that does  *)
(* not complete the leg is negative with magnitude within                     *)
(* [min_output, max_output] (given min_output <= max_output), decreasing in   *)
(* magnitude from at most 0.6 * max_output towards min_output as the distance *)
(* to the overshoot setpoint shrinks.                                         *)
C31_ReverseOutputUpTo60Percent ==
    ( trace.op = "reverse_output" /\ ReverseLegInputs(trace.arg) )
    => /\ trace.drive[1] < 0
       /\ Abs(trace.drive[1]) >= trace.arg.min_output
       /\ Abs(trace.drive[1]) <= trace.arg.max_output
       /\ Abs(trace.drive[1]) <= ReverseStart(trace.arg)
       /\ \A d \in 0 .. trace.arg.distance :
              Abs(ReverseCommand(trace.arg, d)) <= Abs(trace.drive[1])
       /\ Abs(ReverseCommand(trace.arg, 0)) = trace.arg.min_output

(* C31 amended: every drive command issued on a reverse-leg tick that does    *)
(* not complete the leg is negative with magnitude within                     *)
(* [min_output, max(min_output, 0.6 * max_output)] (given min_output <=       *)
(* max_output and max_output > 0); the magnitude never increases as the       *)
(* distance to the overshoot setpoint shrinks and is min_output at distance   *)
(* 0.  It is at most 0.6 * max_output only if min_output <= 0.6 * max_output; *)
(* otherwise it is min_output at every distance.                              *)
C31_ReverseOutputRange ==
    ( /\ trace.op = "reverse_output" /\ ReverseLegInputs(trace.arg)
      /\ trace.arg.max_output > 0 )
    => /\ trace.drive[1] < 0
       /\ Abs(trace.drive[1]) >= trace.arg.min_output
       /\ Abs(trace.drive[1]) <= trace.arg.max_output
       /\ Abs(trace.drive[1]) <= Max(trace.arg.min_output,
                                     ReverseStart(trace.arg))
       /\ trace.arg.min_output > ReverseStart(trace.arg)
          => Abs(trace.drive[1]) = trace.arg.min_output
       /\ \A d \in 0 .. trace.arg.distance :
              Abs(ReverseCommand(trace.arg, d)) <= Abs(trace.drive[1])
       /\ Abs(ReverseCommand(trace.arg, 0)) = trace.arg.min_output

(* C31 witness: limits 80 and 5, a leg of 4 ticks, 2 ticks left: the command  *)
(* is -(5 + (48 - 5) * 2 / 4) = -26 (rounded).                                *)
C31_Witness ==
    /\ trace.op = "reverse_output"
    /\ trace.arg.max_output = 80 /\ trace.arg.min_output = 5
    /\ trace.arg.initial_error = 4 /\ trace.arg.distance = 2
    /\ trace.drive = <<0 - 26>>

----------------------------------------------------------------------------
(* The speed the ramp ends at: max(min_output, ramp_taper_percent/100 *       *)
(* max_output).                                                               *)
RampFloor(in) ==
    Max(in.min_output, (in.ramp_taper_percent * in.max_output) \div 100)

(* C32: in the ramp sub-phase (distance > ramp_ticks) the output lies within  *)
(* [floor, max_output] with floor = max(min_output, ramp_taper_percent/100 *  *)
(* max_output), equals max_output when the distance equals the initial error, *)
(* and never increases as the distance decreases (given min_output <=         *)
(* max_output, as for the other output ranges).                               *)
C32_RampOutputRange ==
    ( trace.op = "ramp_output" /\ trace.arg.min_output <= trace.arg.max_output )
    => /\ trace.drive[1] >= RampFloor(trace.arg)
       /\ trace.drive[1] <= trace.arg.max_output
       /\ trace.arg.distance = trace.arg.initial_error
          => trace.drive[1] = trace.arg.max_output
       /\ \A d \in (trace.arg.ramp_ticks + 1) .. trace.arg.distance :
              RampCommand(trace.arg, d) <= trace.drive[1]

(* C32 witness: limits 80 and 5, taper 30 %, ramp_ticks 2, a move of 6 ticks  *)
(* with 4 left: the output is 24 + (80 - 24) * 2 / 4 = 52, between the floor  *)
(* 24 and max_output.                                                         *)
C32_Witness ==
    /\ trace.op = "ramp_output"
    /\ trace.arg.max_output = 80 /\ trace.arg.min_output = 5
    /\ trace.arg.ramp_taper_percent = 30 /\ trace.arg.ramp_ticks = MaxRamp
    /\ trace.arg.initial_error = MaxRamp + 4
    /\ trace.arg.distance = MaxRamp + 2
    /\ trace.drive = <<52>>

(* C33: as long as every sample is taken within max_count // 2 counts of the  *)
(* previous one, after Encoder.update() absolute_count is the count read by   *)
(* the constructor plus the displacement of the shaft since then, however     *)
(* often the hardware counter has wrapped (the displacement is counted in     *)
(* the sense the invert option selects); delta is the movement since the      *)
(* previous sample and direction is the sign of delta.                        *)
Sense == IF encoder.invert THEN 0 - 1 ELSE 1

C33_AbsoluteCountAcrossWraps ==
    ( trace.op = "encoder_update" /\ hist.in_range )
    => /\ encoder.absolute_count = hist.initial + Sense * hist.displacement
       /\ encoder.delta = Sense * trace.arg
       /\ encoder.direction = Sign(encoder.delta)

(* more than a full sweep of the counter, the last sample taken across the    *)
(* wrap at the largest admitted distance                                      *)
C33_Witness ==
    /\ trace.op = "encoder_update" /\ hist.in_range
    /\ encoder.max_count = MaxCount /\ ~encoder.invert
    /\ hist.displacement > MaxCount + 1
    /\ trace.arg = MaxCount \div 2
    /\ encoder.count < trace.arg
    /\ encoder.direction = 1

(* C34: in every reachable state the flags of the move name one phase:        *)
(* target_reached excludes backlash_active and the wait flag; the wait flag   *)
(* implies backlash_active and a leg that is not forward; a state that is     *)
(* neither reached nor backlash_active has a forward leg; and so              *)
(* is_target_reached equals target_reached.                                   *)
C34_FlagsNameOnePhase ==
    /\ servo.target_reached => ( ~servo.backlash_active /\ ~servo.waiting )
    /\ servo.waiting => ( servo.backlash_active /\ ~servo.forward )
    /\ ( ~servo.target_reached /\ ~servo.backlash_active ) => servo.forward
    /\ is_target_reached(World) = servo.target_reached

(* stop() during the wait before the reverse leg *)
C34_Witness ==
    /\ trace.op = "stop"
    /\ hist.before = "WaitPeelBeforeReverseLeg"
    /\ servo.target_reached /\ ~servo.waiting /\ ~servo.backlash_active
    /\ ~servo.forward

(* C35: update() returns True exactly when is_target_reached is False right   *)
(* after the call.                                                            *)
C35_UpdateReturnsNotReached ==
    trace.op = "update" => ( trace.ret <=> ~is_target_reached(World) )

(* the tick that completes a move returns False; a tick that ends the reverse *)
(* leg and starts waiting for the peel motor returns True                     *)
C35_Witness ==
    /\ trace.op = "update" /\ ~trace.ret
    /\ hist.before = "ForwardLeg" /\ Logged("target_reached")
    /\ is_target_reached(World)

(* C36: the peel motor never runs against the leg under way: in the reverse   *)
(* leg the peel sequencer is Reverse or Stopped, in the forward leg it is     *)
(* Forward or Stopped.                                                        *)
C36_PeelFollowsLeg ==
    /\ Phase = "ReverseLeg" => peel.state \in {STATE_REVERSE, STATE_STOPPED}
    /\ Phase = "ForwardLeg" => peel.state \in {STATE_FORWARD, STATE_STOPPED}

(* the tick in which the reverse run of the peel motor expires and the        *)
(* forward leg of a backward move starts with the peel motor running forward  *)
C36_Witness ==
    /\ trace.op = "update"
    /\ hist.backward /\ Phase = "ForwardLeg"
    /\ Logged("peel_timer_complete") /\ trace.run = <<1>>
    /\ trace.peel = <<0, peel_speed>>
    /\ peel.state = STATE_FORWARD

(* C37: whenever the H-bridge is disabled the commands last applied to the    *)
(* drive channel and to the peel channel are both zero; whenever the peel     *)
(* sequencer is Stopped the command last applied to the peel channel is zero; *)
(* an operation that starts and ends with the bridge disabled applies         *)
(* nothing, and after an operation that enables the bridge each channel       *)
(* carries zero or a command issued by that very operation.                   *)
Quiet(d) == d.drive = 0 /\ d.peel = 0

NoStaleOutput ==
    /\ ~drives.enabled => Quiet(drives)
    /\ peel.state = STATE_STOPPED => drives.peel = 0

C37_NoStaleOutput ==
    /\ []NoStaleOutput
    /\ [][ /\ ( ~drives.enabled /\ ~drives'.enabled ) => drives' = drives
           /\ ( ~drives.enabled /\ drives'.enabled )
              => /\ drives'.drive \in {0} \cup Range(trace'.drive)
                 /\ drives'.peel \in {0} \cup Range(trace'.peel) ]_vars

(* disable() in the forward leg of a move, the peel motor in use *)
C37_Witness ==
    /\ trace.op = "disable"
    /\ hist.before = "ForwardLeg"
    /\ trace.drive = <<0>> /\ trace.peel = <<0>>
    /\ ~drives.enabled /\ Quiet(drives)
    /\ peel.state = STATE_STOPPED

(* C38: update() issues a negative drive command only in the reverse leg of   *)
(* a backward move; in the forward leg, ramp or PID, every drive command of   *)
(* update() is >= 0, whatever the sign of the PID sum.                        *)
C38_NegativeDriveOnlyInReverseLeg ==
    trace.op = "update"
    => /\ ( \E i \in 1 .. Len(trace.drive) : trace.drive[i] < 0 )
          => ( Phase = "ReverseLeg" /\ hist.backward )
       /\ Phase = "ForwardLeg"
          => \A i \in 1 .. Len(trace.drive) : trace.drive[i] >= 0

(* a tick of the PID sub-phase in the forward leg of a backward move whose    *)
(* P + I + D is below min_output: the command is the minimum forward output   *)
C38_Witness ==
    /\ trace.op = "update" /\ Phase = "ForwardLeg"
    /\ hist.backward /\ hist.rev_done
    /\ Logged("control_pid")
    /\ servo.setpoint - encoder > cfg.tolerance
    /\ trace.drive = <<min_output>>

(* C39: PeelMotor.run() with a direction outside {-1, 0, 1} or with a         *)
(* negative duration changes nothing: state, speed and timer stay as they     *)
(* are and no peel_set command is issued; run() with a direction of -1 or 1   *)
(* and duration 0 stops the sequencer at once.                                *)
C39_InvalidRunRejected ==
    [][ IsPeelRun
        => /\ ( trace'.arg[1] \notin {0 - 1, 0, 1} \/ trace'.arg[2] < 0 )
              => /\ peel' = peel
                 /\ drives' = drives
                 /\ trace'.peel = <<>>
           /\ ( trace'.arg[1] \in {0 - 1, 1} /\ trace'.arg[2] = 0 )
              => /\ peel' = PeelStoppedCleared
                 /\ trace'.peel = <<0>> ]_vars

(* a reverse run with a negative duration requested while the sequencer runs  *)
(* forward on an enabled bridge                                               *)
C39_Witness ==
    /\ trace.op = "peel_run"
    /\ trace.arg[1] = 0 - 1 /\ trace.arg[2] < 0
    /\ Logged("peel_invalid_time")
    /\ trace.peel = <<>>
    /\ peel.state = STATE_FORWARD /\ peel.target > 0
    /\ drives.enabled /\ drives.peel > 0

====
